---- MODULE Spec2Model ----
(***************************************************************************)
(* Model of the SnapSecure audit core: BlockchainService (hash ledger and  *)
(* audit trail), SecurityService (firewall, rate limiter, failed-attempt   *)
(* counter) and the DatabaseStorage rows they write.                       *)
(*                                                                         *)
(* JavaScript values are tagged tuples, objects are sequences of           *)
(* <<key, value>> pairs in insertion order.  Every async method is a task  *)
(* whose remaining work is a list of frames; a task is suspended exactly   *)
(* at its await on a storage call and one step of the model completes one  *)
(* such call and runs the synchronous code that follows it.                *)
(***************************************************************************)
EXTENDS Integers, Sequences, FiniteSets, TLC

VARIABLES
    ledger,               \* rows of table blockchain_transactions, insertion order
    securityLogs,         \* rows of table security_logs, insertion order
    currentBlockNumber,   \* BlockchainService.currentBlockNumber
    blockedIPs,           \* SecurityService.blockedIPs
    rateLimits,           \* SecurityService.rateLimits      key -> [count, resetTime]
    failedAttempts,       \* SecurityService.failedAttempts  key -> count
    suspiciousActivities, \* SecurityService.suspiciousActivities key -> count
    users,                \* rows of table users, by id
    permissions,          \* rows of table permissions, insertion order
    secureStore,          \* expo-secure-store: item name -> value
    env,                  \* process.env: which keys are set
    now,                  \* the wall clock read by Date.now()
    tasks,                \* the async calls in flight or finished, per slot
    submitted,            \* history: txHash -> payload handed to the store by createSecurityTransaction
    hist                  \* history: per firewall key, the calls counted by the caller

vars == <<ledger, securityLogs, currentBlockNumber, blockedIPs, rateLimits,
          failedAttempts, suspiciousActivities, users, permissions,
          secureStore, env, now, tasks, submitted, hist>>

(***************************************************************************)
(* Bounds of the model.                                                    *)
(***************************************************************************)
MaxTasks == 2
MaxLedger == 2
MaxTicks == 1
MaxTampered == 1
MaxWindows == 1
MaxAttempts == 9
MaxLogs == MaxLedger + 2
MaxExceeded == 11
MaxRequests == 2
MaxRapid == 21
MaxAuthCalls == 3
MaxDetections == 1
MaxDenials == 9
MaxConcurrent == 5
MaxOverLimit == 2
MaxSwept == 2
MaxStored == 3
MaxPairAttempts == 3
MaxPairRequests == 2
MaxSuspicion == 12
MaxFirewallRows == 3
MaxLoginRows == 7
MaxPermissionRows == 3
MaxPermissionReports == 4

TaskIds == 1..MaxTasks

(***************************************************************************)
(* JavaScript values and objects.                                          *)
(***************************************************************************)
Num(n) == <<"num", n>>
Str(s) == <<"str", s>>
Obj(o) == <<"obj", o>>
Undefined == <<"undefined">>

Range(s) == {s[i] : i \in 1..Len(s)}

\* Object.keys(o): the own keys in insertion order (keys with an undefined value included)
ObjectKeys(o) == [i \in 1..Len(o) |-> o[i][1]]

HasKey(o, k) == \E i \in 1..Len(o) : o[i][1] = k

\* o[k]
GetProp(o, k) ==
    IF HasKey(o, k) THEN o[CHOOSE i \in 1..Len(o) : o[i][1] = k][2] ELSE Undefined

\* o with o[k] = v (the key keeps its place when present, is added last otherwise)
SetProp(o, k, v) ==
    IF HasKey(o, k)
    THEN [i \in 1..Len(o) |-> IF o[i][1] = k THEN <<k, v>> ELSE o[i]]
    ELSE Append(o, <<k, v>>)

\* The property names the services use, in the order Array.prototype.sort
\* gives them (UTF-16 code unit order).
SortedKeyUniverse ==
    <<"blockNumber", "data", "description", "email", "eventType", "ipAddress",
      "messageHash", "messageId", "publicKey", "recipientId",
      "registrationData", "registrationTime", "riskLevel", "senderId",
      "timestamp", "userId", "username">>

\* keys.sort()
SortKeys(ks) == SelectSeq(SortedKeyUniverse, LAMBDA k : k \in Range(ks))

\* JSON.stringify(value, allow): with an array replacer the array is the
\* property list of EVERY object of the value, nested ones included; a
\* property is written only when its name is in the list and its value is
\* not undefined, in the order of the list.
RECURSIVE SerializeJSONObject(_, _, _)
SerializeJSONObject(o, K, allow) ==
    IF K = << >> THEN << >>
    ELSE LET k == Head(K)
             v == GetProp(o, k)
             rest == SerializeJSONObject(o, Tail(K), allow)
         IN  IF v = Undefined THEN rest
             ELSE IF v[1] = "obj"
                  THEN << <<k, Obj(SerializeJSONObject(v[2], allow, allow))>> >> \o rest
                  ELSE << <<k, v>> >> \o rest

JSONStringify(o, allow) == SerializeJSONObject(o, allow, allow)

\* CryptoJS.SHA256(s).toString(Hex): the digest is taken to be collision
\* free, so it is the tagged text it was computed from.
SHA256(s) == <<"sha256", s>>

\* generateTransactionHash with the keys taken as they come, not sorted
generateTransactionHash_Unsorted(data) ==
    SHA256(JSONStringify(data, ObjectKeys(data)))

generateTransactionHash(data) ==
    SHA256(JSONStringify(data, SortKeys(ObjectKeys(data))))

(***************************************************************************)
(* Number <-> string conversions used for relatedEntityId.                 *)
(***************************************************************************)
MaxParse == 99
DigitChars == <<"0", "1", "2", "3", "4", "5", "6", "7", "8", "9">>

RECURSIVE numberToString(_)
numberToString(n) ==
    IF n < 10 THEN DigitChars[n + 1]
    ELSE numberToString(n \div 10) \o DigitChars[(n % 10) + 1]

\* parseInt on the decimal strings numberToString produces
ParseInt(s) == CHOOSE n \in 0..MaxParse : numberToString(n) = s

(***************************************************************************)
(* DatabaseStorage.                                                        *)
(***************************************************************************)
\* Key order of a jsonb object as PostgreSQL returns it: shorter keys
\* first, equal lengths bytewise.
JsonbKeyOrder ==
    <<"data", "email", "userId", "senderId", "username", "eventType", "ipAddress",
      "messageId", "publicKey", "riskLevel", "timestamp", "blockNumber",
      "description", "messageHash", "recipientId", "registrationData",
      "registrationTime">>

\* What a jsonb column gives back for an object written to it: the object
\* goes through JSON text, which drops properties whose value is
\* undefined, and the keys come back in jsonb order.
RECURSIVE JsonbObject(_, _)
JsonbObject(o, K) ==
    IF K = << >> THEN << >>
    ELSE LET k == Head(K)
             v == GetProp(o, k)
             rest == JsonbObject(o, Tail(K))
         IN  IF v = Undefined THEN rest
             ELSE IF v[1] = "obj"
                  THEN << <<k, Obj(JsonbObject(v[2], JsonbKeyOrder))>> >> \o rest
                  ELSE << <<k, v>> >> \o rest

JsonbRoundTrip(o) == JsonbObject(o, JsonbKeyOrder)

HasTransaction(rows, h) == \E i \in 1..Len(rows) : rows[i].txHash = h

\* storage.getBlockchainTransaction: the row of that hash, or undefined
getBlockchainTransaction(rows, h) ==
    IF HasTransaction(rows, h)
    THEN rows[CHOOSE i \in 1..Len(rows) : rows[i].txHash = h]
    ELSE Undefined

\* storage.getAllBlockchainTransactions: ORDER BY created_at DESC
getAllBlockchainTransactions(rows) ==
    [i \in 1..Len(rows) |-> rows[Len(rows) + 1 - i]]

\* storage.createBlockchainTransaction: the row as the table holds it
\* (gasUsed, createdAt and the serial id play no part and are left out)
createBlockchainTransaction(insertTx) ==
    [insertTx EXCEPT !.data = JsonbRoundTrip(insertTx.data)]

\* bcrypt.hash(password, 12) and bcrypt.compare(password, hash): the salt
\* plays no part in whether a password matches
bcryptHash(password) == <<"bcrypt", password>>
bcryptCompare(password, hash) == hash = bcryptHash(password)

\* Defaults of the security_logs columns the services may leave out
SecurityLogDefaults ==
    [riskLevel |-> "low", blockchainHash |-> Undefined, isAnomaly |-> FALSE]

\* storage.createSecurityLog: the row as the table holds it
createSecurityLog(insertLog) == insertLog @@ SecurityLogDefaults

(***************************************************************************)
(* Tasks.  A task is one call of an async method.  todo is what is left of *)
(* it: the first frame is the storage call it is suspended on, the frames  *)
(* after it are the code that follows.  loc holds the method's locals.     *)
(***************************************************************************)
NoLocals ==
    [txHash |-> Undefined, found |-> FALSE, dbData |-> << >>,
     allTransactions |-> << >>, corruptedTransactions |-> << >>,
     result |-> Undefined]

IdleTask ==
    [op |-> "none", arg |-> << >>, todo |-> << >>, status |-> "idle",
     ret |-> Undefined, loc |-> NoLocals]

NewTask(op, arg) ==
    [op |-> op, arg |-> arg, todo |-> << >>, status |-> "pending",
     ret |-> Undefined, loc |-> NoLocals]

\* The program state a task works on: the shared state and the task itself
Machine(t) ==
    [ledger |-> ledger, securityLogs |-> securityLogs,
     currentBlockNumber |-> currentBlockNumber, blockedIPs |-> blockedIPs,
     rateLimits |-> rateLimits, failedAttempts |-> failedAttempts,
     suspiciousActivities |-> suspiciousActivities, users |-> users,
     permissions |-> permissions, secureStore |-> secureStore,
     submitted |-> submitted, task |-> tasks[t]]

Push(M, frames) == [M EXCEPT !.task.todo = frames \o @]
Pop(M) == [M EXCEPT !.task.todo = Tail(@)]

\* return v from the method the task runs
Resolve(M, v) ==
    [M EXCEPT !.task.status = "resolved", !.task.ret = v, !.task.todo = << >>]

\* throw: unwind to the innermost enclosing catch block, whose body returns
\* a value; with no catch block the promise of the task is rejected
RECURSIVE Throw(_)
Throw(M) ==
    IF M.task.todo = << >>
    THEN [M EXCEPT !.task.status = "rejected"]
    ELSE IF Head(M.task.todo).k = "catch"
         THEN Resolve(M, Head(M.task.todo).val)
         ELSE Throw(Pop(M))

(***************************************************************************)
(* BlockchainService: the synchronous part of each method up to its first  *)
(* await.  rest is the code of the caller that follows the call.           *)
(***************************************************************************)
\* createSecurityTransaction with the increment of currentBlockNumber left out
createSecurityTransaction_NoIncrement(M, eventType, data, userId) ==
    LET transactionData ==
            << <<"eventType", Str(eventType)>>,
               <<"data", Obj(data)>>,
               <<"userId", userId>>,
               <<"timestamp", Num(now)>>,
               <<"blockNumber", Num(M.currentBlockNumber + 1)>> >>
        txHash == generateTransactionHash(transactionData)
        blockNumber == M.currentBlockNumber
        insertTx ==
            [txHash |-> txHash,
             txType |-> eventType,
             relatedEntityId |->
                 IF userId = Undefined THEN Undefined
                 ELSE Str(numberToString(userId[2])),
             data |-> transactionData,
             blockNumber |-> blockNumber,
             isConfirmed |-> TRUE]
    IN  Push([M EXCEPT !.currentBlockNumber = blockNumber],
             << [k |-> "insert", insertTx |-> insertTx,
                 transactionData |-> transactionData, txHash |-> txHash] >>)

\* createSecurityTransaction, lines 25-48: build the payload, hash it, take
\* the next block number, hand the row to the store
createSecurityTransaction(M, eventType, data, userId) ==
    LET transactionData ==
            << <<"eventType", Str(eventType)>>,
               <<"data", Obj(data)>>,
               <<"userId", userId>>,
               <<"timestamp", Num(now)>>,
               <<"blockNumber", Num(M.currentBlockNumber + 1)>> >>
        txHash == generateTransactionHash(transactionData)
        blockNumber == M.currentBlockNumber + 1
        insertTx ==
            [txHash |-> txHash,
             txType |-> eventType,
             relatedEntityId |->
                 IF userId = Undefined THEN Undefined
                 ELSE Str(numberToString(userId[2])),
             data |-> transactionData,
             blockNumber |-> blockNumber,
             isConfirmed |-> TRUE]
    IN  Push([M EXCEPT !.currentBlockNumber = blockNumber],
             << [k |-> "insert", insertTx |-> insertTx,
                 transactionData |-> transactionData, txHash |-> txHash] >>)

\* createAuditTrail: the ledger entry, then the security log row that
\* links back to it
createAuditTrail(M, userId, eventType, description, riskLevel) ==
    LET auditData ==
            << <<"userId", Num(userId)>>,
               <<"eventType", Str(eventType)>>,
               <<"description", Str(description)>>,
               <<"riskLevel", Str(riskLevel)>>,
               <<"timestamp", Num(now)>>,
               <<"ipAddress", Str("127.0.0.1")>> >>
    IN  createSecurityTransaction(
            Push(M, << [k |-> "auditLog", userId |-> userId,
                        eventType |-> eventType,
                        description |-> description,
                        riskLevel |-> riskLevel] >>),
            "security_audit", auditData, Num(userId))

\* the log row with the anomaly flag set for critical events only
AuditLogRow_CriticalOnly(f, txHash) ==
    [userId |-> f.userId,
     eventType |-> f.eventType,
     eventDescription |-> <<f.description>>,
     riskLevel |-> f.riskLevel,
     blockchainHash |-> txHash,
     isAnomaly |-> (f.riskLevel = "critical")]

\* createAuditTrail, lines 257-265, run once createSecurityTransaction has
\* returned txHash
AuditLogRow(f, txHash) ==
    [userId |-> f.userId,
     eventType |-> f.eventType,
     eventDescription |-> <<f.description>>,
     riskLevel |-> f.riskLevel,
     blockchainHash |-> txHash,
     isAnomaly |-> (f.riskLevel = "high" \/ f.riskLevel = "critical")]

(***************************************************************************)
(* Direct changes of a stored payload (made in the database, not through   *)
(* the service): one property, top-level or of the nested event data, gets *)
(* another value.                                                          *)
(***************************************************************************)
ApplyChange(data, c) ==
    IF Len(c.path) = 1
    THEN SetProp(data, c.path[1], c.val)
    ELSE SetProp(data, "data",
                 Obj(SetProp(GetProp(data, "data")[2], c.path[2], c.val)))

\* the property the change names exists in the payload
ChangeApplies(data, c) ==
    IF Len(c.path) = 1
    THEN HasKey(data, c.path[1])
    ELSE HasKey(data, "data") /\ HasKey(GetProp(data, "data")[2], c.path[2])

(***************************************************************************)
(* The code that runs when a storage call returns.                         *)
(***************************************************************************)
\* parseInt(row.relatedEntityId || '0')
RelatedUserId(row) ==
    ParseInt(IF row.relatedEntityId = Undefined THEN "0" ELSE row.relatedEntityId[2])

\* verifyTransaction reporting a mismatch without writing the security log
verifyTransaction_NoLog(M, txHash, found, dbData) ==
    IF ~found \/ ~dbData.isConfirmed
    THEN Resolve(M, FALSE)
    ELSE Resolve(M, generateTransactionHash(dbData.data) = txHash)

\* verifyTransaction taking the confirmation back from an entry that fails
verifyTransaction_Unconfirm(M, txHash, found, dbData) ==
    IF ~found \/ ~dbData.isConfirmed
    THEN Resolve(M, FALSE)
    ELSE LET regeneratedHash == generateTransactionHash(dbData.data)
             hashMatches == (regeneratedHash = txHash)
         IN  IF ~hashMatches
             THEN Push([M EXCEPT !.ledger =
                            [i \in 1..Len(@) |->
                                IF @[i].txHash = txHash
                                THEN [@[i] EXCEPT !.isConfirmed = FALSE] ELSE @[i]]],
                       << [k |-> "log",
                           row |-> [userId |-> RelatedUserId(dbData),
                                    eventType |-> "blockchain_tampering_detected",
                                    eventDescription |->
                                        <<"Transaction hash verification failed for ", txHash>>,
                                    riskLevel |-> "critical",
                                    isAnomaly |-> TRUE]],
                          [k |-> "ret", val |-> hashMatches] >>)
             ELSE Resolve(M, hashMatches)

\* verifyTransaction, lines 112-131, with dbData the row the store returned
\* (found = FALSE: undefined)
verifyTransaction(M, txHash, found, dbData) ==
    IF ~found \/ ~dbData.isConfirmed
    THEN Resolve(M, FALSE)
    ELSE LET regeneratedHash == generateTransactionHash(dbData.data)
             hashMatches == (regeneratedHash = txHash)
         IN  IF ~hashMatches
             THEN Push(M, << [k |-> "log",
                              row |-> [userId |-> RelatedUserId(dbData),
                                       eventType |-> "blockchain_tampering_detected",
                                       eventDescription |->
                                           <<"Transaction hash verification failed for ", txHash>>,
                                       riskLevel |-> "critical",
                                       isAnomaly |-> TRUE]],
                             [k |-> "ret", val |-> hashMatches] >>)
             ELSE Resolve(M, hashMatches)

\* validateChainIntegrity with a loop that ends one transaction early
RECURSIVE validateChainIntegrity_OneShort(_, _)
validateChainIntegrity_OneShort(M, i) ==
    LET all == M.task.loc.allTransactions
        corrupted == M.task.loc.corruptedTransactions
    IN  IF i >= Len(all)
        THEN Resolve(M, [valid |-> (Len(corrupted) = 0),
                         corruptedTransactions |-> corrupted])
        ELSE LET transaction == all[i]
                 regeneratedHash == generateTransactionHash(transaction.data)
             IN  IF regeneratedHash # transaction.txHash
                 THEN Push([M EXCEPT !.task.loc.corruptedTransactions =
                                         Append(@, transaction.txHash)],
                           << [k |-> "log",
                               row |-> [userId |-> RelatedUserId(transaction),
                                        eventType |-> "blockchain_integrity_violation",
                                        eventDescription |->
                                            <<"Chain integrity violation: ", transaction.txHash>>,
                                        riskLevel |-> "critical",
                                        isAnomaly |-> TRUE]],
                              [k |-> "validateLoop", i |-> i + 1] >>)
                 ELSE validateChainIntegrity_OneShort(M, i + 1)

\* validateChainIntegrity, lines 207-227: the loop from transaction i on,
\* up to the next await or the return
RECURSIVE validateChainIntegrity(_, _)
validateChainIntegrity(M, i) ==
    LET all == M.task.loc.allTransactions
        corrupted == M.task.loc.corruptedTransactions
    IN  IF i > Len(all)
        THEN Resolve(M, [valid |-> (Len(corrupted) = 0),
                         corruptedTransactions |-> corrupted])
        ELSE LET transaction == all[i]
                 regeneratedHash == generateTransactionHash(transaction.data)
             IN  IF regeneratedHash # transaction.txHash
                 THEN Push([M EXCEPT !.task.loc.corruptedTransactions =
                                         Append(@, transaction.txHash)],
                           << [k |-> "log",
                               row |-> [userId |-> RelatedUserId(transaction),
                                        eventType |-> "blockchain_integrity_violation",
                                        eventDescription |->
                                            <<"Chain integrity violation: ", transaction.txHash>>,
                                        riskLevel |-> "critical",
                                        isAnomaly |-> TRUE]],
                              [k |-> "validateLoop", i |-> i + 1] >>)
                 ELSE validateChainIntegrity(M, i + 1)

(***************************************************************************)
(* BlockchainService.registerUserOnChain and recordMessageOnChain.         *)
(***************************************************************************)
\* registerUserOnChain appending the entry without the user it relates to
registerUserOnChainCall_NoEntity(M, userId, userData, keyPair) ==
    LET transactionData ==
            << <<"userId", Num(userId)>>,
               <<"publicKey", Str(keyPair.publicKey)>>,
               <<"registrationData", Obj(userData)>>,
               <<"timestamp", Num(now)>> >>
    IN  createSecurityTransaction(
            Push(M, << [k |-> "updateUserKeys", userId |-> userId,
                        keyPair |-> keyPair] >>),
            "user_registration", transactionData, Undefined)

\* registerUserOnChain, lines 61-80, up to its first await; keyPair is
\* what generateKeyPair drew.  The code of the caller follows in M.
registerUserOnChainCall(M, userId, userData, keyPair) ==
    LET transactionData ==
            << <<"userId", Num(userId)>>,
               <<"publicKey", Str(keyPair.publicKey)>>,
               <<"registrationData", Obj(userData)>>,
               <<"timestamp", Num(now)>> >>
    IN  createSecurityTransaction(
            Push(M, << [k |-> "updateUserKeys", userId |-> userId,
                        keyPair |-> keyPair] >>),
            "user_registration", transactionData, Num(userId))

\* registerUserOnChain called on its own: it returns txHash
registerUserOnChain(M, userId, userData, keyPair) ==
    registerUserOnChainCall(Push(M, << [k |-> "retTx"] >>), userId, userData, keyPair)

\* encryptPrivateKey: CryptoJS.AES.encrypt under the master key
encryptPrivateKey(privateKey) == <<"aes", privateKey, "MASTER_ENCRYPTION_KEY">>

\* registerUserOnChain, lines 77-80: encryptPrivateKey throws when the
\* master key is not set, otherwise storage.updateUser is called
updateUserKeys(M, f) ==
    IF ~env.MASTER_ENCRYPTION_KEY
    THEN Throw(M)
    ELSE Push(M, << [k |-> "updateUser", id |-> f.userId,
                     updates |-> [publicKey |-> f.keyPair.publicKey,
                                  privateKeyEncrypted |->
                                      encryptPrivateKey(f.keyPair.privateKey)]] >>)

\* recordMessageOnChain
recordMessageOnChain(M, messageId, senderId, recipientId, messageHash) ==
    LET transactionData ==
            << <<"messageId", Str(messageId)>>,
               <<"senderId", Num(senderId)>>,
               <<"recipientId", Num(recipientId)>>,
               <<"messageHash", Str(messageHash)>>,
               <<"timestamp", Num(now)>> >>
    IN  createSecurityTransaction(Push(M, << [k |-> "retTx"] >>),
                                  "message_sent", transactionData, Num(senderId))

\* storage.updateUser once the UPDATE has returned: the row is changed when
\* it exists, and then a security log row is written
updateUser(M, f) ==
    IF f.id \in DOMAIN M.users
    THEN Push([M EXCEPT !.users[f.id] = f.updates @@ @],
              << [k |-> "log",
                  row |-> [userId |-> f.id,
                           eventType |-> "user_profile_update",
                           eventDescription |-> <<"User profile updated">>,
                           riskLevel |-> "low"]] >>)
    ELSE M

(***************************************************************************)
(* SecurityService.                                                        *)
(***************************************************************************)
MAX_FAILED_ATTEMPTS == 5
RATE_LIMIT_WINDOW == 60000
MAX_REQUESTS_PER_MINUTE == 100
SUSPICIOUS_THRESHOLD == 10

\* new Set() filled by initializeFirewall
knownMaliciousIPs == {"0.0.0.0", "192.168.1.1"}

\* Map.get(k) || d, Map.set, Map.delete
MapGet(m, k, d) == IF k \in DOMAIN m THEN m[k] ELSE d
MapSet(m, k, v) == (k :> v) @@ m
MapDelete(m, k) == [x \in DOMAIN m \ {k} |-> m[x]]

\* `${identifier}:${ipAddress}`
FirewallKey(identifier, ipAddress) == identifier \o ":" \o ipAddress

isIPBlocked(blocked, ipAddress) == ipAddress \in blocked

\* the method the task is in returns v to its caller
Return(M, v) == Push(M, << [k |-> "result", val |-> v] >>)

\* blockIP auditing the block at risk medium
blockIP_Medium(M, ipAddress, reason, userId) ==
    createAuditTrail([M EXCEPT !.blockedIPs = @ \cup {ipAddress}],
                     IF userId = Undefined THEN 0 ELSE userId[2],
                     "ip_blocked",
                     "IP " \o ipAddress \o " blocked: " \o reason,
                     "medium")

\* blockIP; userId is a number value or Undefined
blockIP(M, ipAddress, reason, userId) ==
    createAuditTrail([M EXCEPT !.blockedIPs = @ \cup {ipAddress}],
                     IF userId = Undefined THEN 0 ELSE userId[2],
                     "ip_blocked",
                     "IP " \o ipAddress \o " blocked: " \o reason,
                     "high")

\* recordFailedAttempt blocking one attempt late
recordFailedAttempt_Late(M, identifier, ipAddress) ==
    LET key == FirewallKey(identifier, ipAddress)
        attempts == MapGet(M.failedAttempts, key, 0)
        newAttempts == attempts + 1
        M1 == [M EXCEPT !.failedAttempts = MapSet(@, key, newAttempts)]
    IN  IF newAttempts > MAX_FAILED_ATTEMPTS
        THEN blockIP(Return(M1, TRUE), ipAddress,
                     numberToString(MAX_FAILED_ATTEMPTS)
                         \o " failed login attempts for " \o identifier,
                     Undefined)
        ELSE createAuditTrail(
                 Return(M1, FALSE), 0, "failed_login_attempt",
                 "Failed login attempt " \o numberToString(newAttempts) \o "/"
                     \o numberToString(MAX_FAILED_ATTEMPTS) \o " for " \o identifier,
                 IF newAttempts > 2 THEN "medium" ELSE "low")

\* recordFailedAttempt auditing every attempt below the threshold as low
recordFailedAttempt_LowOnly(M, identifier, ipAddress) ==
    LET key == FirewallKey(identifier, ipAddress)
        attempts == MapGet(M.failedAttempts, key, 0)
        newAttempts == attempts + 1
        M1 == [M EXCEPT !.failedAttempts = MapSet(@, key, newAttempts)]
    IN  IF newAttempts >= MAX_FAILED_ATTEMPTS
        THEN blockIP(Return(M1, TRUE), ipAddress,
                     numberToString(MAX_FAILED_ATTEMPTS)
                         \o " failed login attempts for " \o identifier,
                     Undefined)
        ELSE createAuditTrail(
                 Return(M1, FALSE), 0, "failed_login_attempt",
                 "Failed login attempt " \o numberToString(newAttempts) \o "/"
                     \o numberToString(MAX_FAILED_ATTEMPTS) \o " for " \o identifier,
                 "low")

\* recordFailedAttempt counting only the attempts below the threshold
recordFailedAttempt_BlockUncounted(M, identifier, ipAddress) ==
    LET key == FirewallKey(identifier, ipAddress)
        attempts == MapGet(M.failedAttempts, key, 0)
        newAttempts == attempts + 1
        M1 == [M EXCEPT !.failedAttempts = MapSet(@, key, newAttempts)]
    IN  IF newAttempts >= MAX_FAILED_ATTEMPTS
        THEN blockIP(Return(M, TRUE), ipAddress,
                     numberToString(MAX_FAILED_ATTEMPTS)
                         \o " failed login attempts for " \o identifier,
                     Undefined)
        ELSE createAuditTrail(
                 Return(M1, FALSE), 0, "failed_login_attempt",
                 "Failed login attempt " \o numberToString(newAttempts) \o "/"
                     \o numberToString(MAX_FAILED_ATTEMPTS) \o " for " \o identifier,
                 IF newAttempts > 2 THEN "medium" ELSE "low")

\* recordFailedAttempt
recordFailedAttempt(M, identifier, ipAddress) ==
    LET key == FirewallKey(identifier, ipAddress)
        attempts == MapGet(M.failedAttempts, key, 0)
        newAttempts == attempts + 1
        M1 == [M EXCEPT !.failedAttempts = MapSet(@, key, newAttempts)]
    IN  IF newAttempts >= MAX_FAILED_ATTEMPTS
        THEN blockIP(Return(M1, TRUE), ipAddress,
                     numberToString(MAX_FAILED_ATTEMPTS)
                         \o " failed login attempts for " \o identifier,
                     Undefined)
        ELSE createAuditTrail(
                 Return(M1, FALSE), 0, "failed_login_attempt",
                 "Failed login attempt " \o numberToString(newAttempts) \o "/"
                     \o numberToString(MAX_FAILED_ATTEMPTS) \o " for " \o identifier,
                 IF newAttempts > 2 THEN "medium" ELSE "low")

\* clearFailedAttempts
clearFailedAttempts(M, identifier, ipAddress) ==
    [M EXCEPT !.failedAttempts = MapDelete(@, FirewallKey(identifier, ipAddress))]

\* recordSuspiciousActivity, lines 130-144; userId is a string or a number value
recordSuspiciousActivity(M, userId, activityType, description, ipAddress) ==
    LET key == (IF userId[1] = "str" THEN userId[2] ELSE numberToString(userId[2]))
                   \o ":" \o activityType
        count == MapGet(M.suspiciousActivities, key, 0)
        newCount == count + 1
        riskLevel == IF newCount > SUSPICIOUS_THRESHOLD THEN "critical"
                     ELSE IF newCount > 5 THEN "high" ELSE "medium"
    IN  createAuditTrail(
            Push([M EXCEPT !.suspiciousActivities = MapSet(@, key, newCount)],
                 << [k |-> "autoBlock", newCount |-> newCount,
                     activityType |-> activityType, ipAddress |-> ipAddress] >>),
            IF userId[1] = "str" THEN 0 ELSE userId[2],
            "suspicious_activity",
            activityType \o ": " \o description \o " (occurrence: "
                \o numberToString(newCount) \o ")",
            riskLevel)

\* recordSuspiciousActivity blocking from the threshold on
autoBlock_AtThreshold(M, f) ==
    IF f.newCount >= SUSPICIOUS_THRESHOLD
    THEN blockIP(M, f.ipAddress,
                 "Suspicious activity threshold exceeded: " \o f.activityType,
                 Undefined)
    ELSE M

\* recordSuspiciousActivity, lines 146-149
autoBlock(M, f) ==
    IF f.newCount > SUSPICIOUS_THRESHOLD
    THEN blockIP(M, f.ipAddress,
                 "Suspicious activity threshold exceeded: " \o f.activityType,
                 Undefined)
    ELSE M

\* checkRateLimit letting one request too many through
checkRateLimit_OffByOne(M, identifier, ipAddress) ==
    LET key == FirewallKey(identifier, ipAddress)
        has == key \in DOMAIN M.rateLimits
        limit == M.rateLimits[key]
    IN  IF ~has \/ now > limit.resetTime
        THEN Return([M EXCEPT !.rateLimits =
                                  MapSet(@, key, [count |-> 1,
                                                  resetTime |-> now + RATE_LIMIT_WINDOW])],
                    TRUE)
        ELSE IF limit.count > MAX_REQUESTS_PER_MINUTE
             THEN recordSuspiciousActivity(
                      Return(M, FALSE), Str(identifier), "rate_limit_exceeded",
                      "Rate limit exceeded: " \o numberToString(limit.count) \o " requests",
                      ipAddress)
             ELSE Return([M EXCEPT !.rateLimits[key].count = @ + 1], TRUE)

\* checkRateLimit counting the requests it rejects
checkRateLimit_CountsRejected(M, identifier, ipAddress) ==
    LET key == FirewallKey(identifier, ipAddress)
        has == key \in DOMAIN M.rateLimits
        limit == M.rateLimits[key]
    IN  IF ~has \/ now > limit.resetTime
        THEN Return([M EXCEPT !.rateLimits =
                                  MapSet(@, key, [count |-> 1,
                                                  resetTime |-> now + RATE_LIMIT_WINDOW])],
                    TRUE)
        ELSE IF limit.count >= MAX_REQUESTS_PER_MINUTE
             THEN recordSuspiciousActivity(
                      Return([M EXCEPT !.rateLimits[key].count = @ + 1], FALSE),
                      Str(identifier), "rate_limit_exceeded",
                      "Rate limit exceeded: " \o numberToString(limit.count) \o " requests",
                      ipAddress)
             ELSE Return([M EXCEPT !.rateLimits[key].count = @ + 1], TRUE)

\* checkRateLimit
checkRateLimit(M, identifier, ipAddress) ==
    LET key == FirewallKey(identifier, ipAddress)
        has == key \in DOMAIN M.rateLimits
        limit == M.rateLimits[key]
    IN  IF ~has \/ now > limit.resetTime
        THEN Return([M EXCEPT !.rateLimits =
                                  MapSet(@, key, [count |-> 1,
                                                  resetTime |-> now + RATE_LIMIT_WINDOW])],
                    TRUE)
        ELSE IF limit.count >= MAX_REQUESTS_PER_MINUTE
             THEN recordSuspiciousActivity(
                      Return(M, FALSE), Str(identifier), "rate_limit_exceeded",
                      "Rate limit exceeded: " \o numberToString(limit.count) \o " requests",
                      ipAddress)
             ELSE Return([M EXCEPT !.rateLimits[key].count = @ + 1], TRUE)

\* activity.includes(part); an activity name is kept as its list of words
Includes(activity, part) == \E i \in 1..Len(activity) : activity[i] = part

\* threats.join(', ')
RECURSIVE Join(_)
Join(threats) ==
    IF threats = << >> THEN ""
    ELSE IF Len(threats) = 1 THEN threats[1]
    ELSE threats[1] \o ", " \o Join(Tail(threats))

\* detectIntrusion taking two threats for a critical one
detectIntrusion_TwoIsCritical(M, userId, activity, metadata) ==
    LET rapidCount == MapGet(M.suspiciousActivities,
                             numberToString(userId) \o ":" \o "rapid_activity", 0)
        threats ==
            (IF rapidCount > 20 THEN <<"rapid_activity">> ELSE << >>)
            \o (IF Includes(activity, "permission") /\ metadata.unusual_pattern
                THEN <<"unusual_permission_pattern">> ELSE << >>)
            \o (IF Includes(activity, "file_access") /\ metadata.suspicious_size
                THEN <<"file_access_anomaly">> ELSE << >>)
        level == IF Len(threats) > 1 THEN "critical" ELSE "medium"
        action == IF level = "critical" THEN "block_user"
                  ELSE IF level = "high" THEN "require_verification" ELSE "monitor"
    IN  IF Len(threats) = 0
        THEN Return(M, [threat |-> FALSE, level |-> "none", action |-> "continue"])
        ELSE createAuditTrail(
                 Return(M, [threat |-> TRUE, level |-> level, action |-> action]),
                 userId, "intrusion_detected",
                 "Intrusion detected: " \o Join(threats), level)

\* detectIntrusion counting the call as a rapid activity of the user
detectIntrusion_Counts(M, userId, activity, metadata) ==
    LET key == numberToString(userId) \o ":" \o "rapid_activity"
        rapidCount == MapGet(M.suspiciousActivities, key, 0)
        threats ==
            (IF rapidCount > 20 THEN <<"rapid_activity">> ELSE << >>)
            \o (IF Includes(activity, "permission") /\ metadata.unusual_pattern
                THEN <<"unusual_permission_pattern">> ELSE << >>)
            \o (IF Includes(activity, "file_access") /\ metadata.suspicious_size
                THEN <<"file_access_anomaly">> ELSE << >>)
        level == IF Len(threats) > 2 THEN "critical"
                 ELSE IF Len(threats) > 1 THEN "high" ELSE "medium"
        action == IF level = "critical" THEN "block_user"
                  ELSE IF level = "high" THEN "require_verification" ELSE "monitor"
        M1 == [M EXCEPT !.suspiciousActivities = MapSet(@, key, rapidCount + 1)]
    IN  IF Len(threats) = 0
        THEN Return(M1, [threat |-> FALSE, level |-> "none", action |-> "continue"])
        ELSE createAuditTrail(
                 Return(M1, [threat |-> TRUE, level |-> level, action |-> action]),
                 userId, "intrusion_detected",
                 "Intrusion detected: " \o Join(threats), level)

\* detectIntrusion answering block_user on any signal
detectIntrusion_AnyBlocks(M, userId, activity, metadata) ==
    LET rapidCount == MapGet(M.suspiciousActivities,
                             numberToString(userId) \o ":" \o "rapid_activity", 0)
        threats ==
            (IF rapidCount > 20 THEN <<"rapid_activity">> ELSE << >>)
            \o (IF Includes(activity, "permission") /\ metadata.unusual_pattern
                THEN <<"unusual_permission_pattern">> ELSE << >>)
            \o (IF Includes(activity, "file_access") /\ metadata.suspicious_size
                THEN <<"file_access_anomaly">> ELSE << >>)
        level == "critical"
        action == "block_user"
    IN  IF Len(threats) = 0
        THEN Return(M, [threat |-> FALSE, level |-> "none", action |-> "continue"])
        ELSE createAuditTrail(
                 Return(M, [threat |-> TRUE, level |-> level, action |-> action]),
                 userId, "intrusion_detected",
                 "Intrusion detected: " \o Join(threats), level)

\* detectIntrusion; metadata.unusual_pattern and metadata.suspicious_size
\* are kept as their truthiness
detectIntrusion(M, userId, activity, metadata) ==
    LET rapidCount == MapGet(M.suspiciousActivities,
                             numberToString(userId) \o ":" \o "rapid_activity", 0)
        threats ==
            (IF rapidCount > 20 THEN <<"rapid_activity">> ELSE << >>)
            \o (IF Includes(activity, "permission") /\ metadata.unusual_pattern
                THEN <<"unusual_permission_pattern">> ELSE << >>)
            \o (IF Includes(activity, "file_access") /\ metadata.suspicious_size
                THEN <<"file_access_anomaly">> ELSE << >>)
        level == IF Len(threats) > 2 THEN "critical"
                 ELSE IF Len(threats) > 1 THEN "high" ELSE "medium"
        action == IF level = "critical" THEN "block_user"
                  ELSE IF level = "high" THEN "require_verification" ELSE "monitor"
    IN  IF Len(threats) = 0
        THEN Return(M, [threat |-> FALSE, level |-> "none", action |-> "continue"])
        ELSE createAuditTrail(
                 Return(M, [threat |-> TRUE, level |-> level, action |-> action]),
                 userId, "intrusion_detected",
                 "Intrusion detected: " \o Join(threats), level)

\* checkPermissionSecurity, lines 193-195, up to its first await
checkPermissionSecurity(M, userId, permissionType) ==
    Push(M, << [k |-> "getUser", userId |-> userId, permissionType |-> permissionType],
               [k |-> "catch",
                val |-> [allowed |-> FALSE, reason |-> Str("Security check failed")]] >>)

\* checkPermissionSecurity testing the permission requests before the score
permissionUserFound_CountFirst(M, f) ==
    IF f.userId \notin DOMAIN M.users
    THEN Resolve(M, [allowed |-> FALSE, reason |-> Str("User not found")])
    ELSE LET user == M.users[f.userId]
             suspiciousKey == numberToString(f.userId) \o ":permission_request"
             suspiciousCount == MapGet(M.suspiciousActivities, suspiciousKey, 0)
         IN  IF suspiciousCount > 3
             THEN Resolve(M, [allowed |-> FALSE,
                              reason |-> Str("Too many recent permission requests")])
             ELSE IF user.securityScore < 50
             THEN createAuditTrail(
                      Push(M, << [k |-> "ret",
                                  val |-> [allowed |-> FALSE,
                                           reason |-> Str("Security score too low")]] >>),
                      f.userId, "permission_denied",
                      "Permission " \o f.permissionType
                          \o " denied due to low security score: "
                          \o numberToString(user.securityScore),
                      "medium")
             ELSE createAuditTrail(
                      Push(M, << [k |-> "ret",
                                  val |-> [allowed |-> TRUE, reason |-> Undefined]] >>),
                      f.userId, "permission_granted",
                      "Permission " \o f.permissionType \o " granted", "low")

\* checkPermissionSecurity, lines 196-226: storage.getUser has returned
permissionUserFound(M, f) ==
    IF f.userId \notin DOMAIN M.users
    THEN Resolve(M, [allowed |-> FALSE, reason |-> Str("User not found")])
    ELSE LET user == M.users[f.userId]
             suspiciousKey == numberToString(f.userId) \o ":permission_request"
             suspiciousCount == MapGet(M.suspiciousActivities, suspiciousKey, 0)
         IN  IF user.securityScore < 50
             THEN createAuditTrail(
                      Push(M, << [k |-> "ret",
                                  val |-> [allowed |-> FALSE,
                                           reason |-> Str("Security score too low")]] >>),
                      f.userId, "permission_denied",
                      "Permission " \o f.permissionType
                          \o " denied due to low security score: "
                          \o numberToString(user.securityScore),
                      "medium")
             ELSE IF suspiciousCount > 3
             THEN Resolve(M, [allowed |-> FALSE,
                              reason |-> Str("Too many recent permission requests")])
             ELSE createAuditTrail(
                      Push(M, << [k |-> "ret",
                                  val |-> [allowed |-> TRUE, reason |-> Undefined]] >>),
                      f.userId, "permission_granted",
                      "Permission " \o f.permissionType \o " granted", "low")

\* now - (60 * 60 * 1000)
OneHour == 60 * 60 * 1000

\* cleanupSecurityData setting the blocked addresses back to the known ones
cleanupSecurityData_Unblocks(M) ==
    LET oneHourAgo == now - OneHour
        keptLimits == {key \in DOMAIN M.rateLimits : ~(now > M.rateLimits[key].resetTime)}
        keptAttempts == {key \in DOMAIN M.failedAttempts :
                             ~(M.failedAttempts[key] < oneHourAgo)}
    IN  [M EXCEPT !.rateLimits = [key \in keptLimits |-> M.rateLimits[key]],
                  !.failedAttempts = [key \in keptAttempts |-> M.failedAttempts[key]],
                  !.blockedIPs = knownMaliciousIPs]

\* cleanupSecurityData: the rate limits whose reset time has passed are
\* deleted; the loop over failedAttempts compares the value of each entry,
\* which is the attempt count, with the time one hour ago
cleanupSecurityData(M) ==
    LET oneHourAgo == now - OneHour
        keptLimits == {key \in DOMAIN M.rateLimits : ~(now > M.rateLimits[key].resetTime)}
        keptAttempts == {key \in DOMAIN M.failedAttempts :
                             ~(M.failedAttempts[key] < oneHourAgo)}
    IN  [M EXCEPT !.rateLimits = [key \in keptLimits |-> M.rateLimits[key]],
                  !.failedAttempts = [key \in keptAttempts |-> M.failedAttempts[key]]]

(***************************************************************************)
(* AuthService.login.  ctx holds the arguments of the call.                *)
(***************************************************************************)
\* an AuthResult
AuthFailure(message) ==
    [success |-> FALSE, message |-> message, user |-> Undefined, token |-> Undefined]

AuthSuccess(message, userId, token) ==
    [success |-> TRUE, message |-> message, user |-> Num(userId), token |-> token]

\* storage.getUserByUsername, storage.getUserByEmail: the ids of the rows found
getUserByUsername(rows, username) == {id \in DOMAIN rows : rows[id].username = username}
getUserByEmail(rows, email) == {id \in DOMAIN rows : rows[id].email = email}

\* login, lines 575-584, up to its first await
login(M, ctx) ==
    IF isIPBlocked(M.blockedIPs, ctx.ipAddress)
    THEN Resolve(M, AuthFailure("Access denied from this IP address"))
    ELSE checkRateLimit(
             Push(M, << [k |-> "loginRateChecked", ctx |-> ctx],
                        [k |-> "catch",
                         val |-> AuthFailure("Login failed. Please try again.")] >>),
             "login", ctx.ipAddress)

\* login, lines 581-587: checkRateLimit has returned
loginRateChecked(M, f) ==
    IF ~M.task.loc.result
    THEN Resolve(M, AuthFailure("Too many login attempts. Please try again later."))
    ELSE Push(M, << [k |-> "getUserByUsername", for |-> "login", ctx |-> f.ctx] >>)

\* login answering an unknown user name without counting the attempt
loginUserFound_Uncounted(M, f) ==
    LET ids == getUserByUsername(M.users, f.ctx.username)
    IN  IF ids = {}
        THEN Resolve(M, AuthFailure("Invalid username or password"))
        ELSE LET id == CHOOSE id \in ids : TRUE
             IN  Push(M, << [k |-> "bcryptCompare", ctx |-> f.ctx, userId |-> id,
                             passwordHash |-> M.users[id].passwordHash] >>)

\* login, lines 588-592 and 594: getUserByUsername has returned
loginUserFound(M, f) ==
    LET ids == getUserByUsername(M.users, f.ctx.username)
    IN  IF ids = {}
        THEN recordFailedAttempt(
                 Push(M, << [k |-> "ret",
                             val |-> AuthFailure("Invalid username or password")] >>),
                 f.ctx.username, f.ctx.ipAddress)
        ELSE LET id == CHOOSE id \in ids : TRUE
             IN  Push(M, << [k |-> "bcryptCompare", ctx |-> f.ctx, userId |-> id,
                             passwordHash |-> M.users[id].passwordHash] >>)

\* login after a password that verified, with the counter left as it is
passwordVerified_NoClear(M, f) ==
    detectIntrusion(
        Push(M, << [k |-> "loginIntrusionChecked", ctx |-> f.ctx, userId |-> f.userId] >>),
        f.userId, <<"login", "_", "attempt">>,
        [unusual_pattern |-> FALSE, suspicious_size |-> FALSE])

\* login, lines 603-611: the password verified; the metadata of the
\* intrusion check has neither unusual_pattern nor suspicious_size
passwordVerified(M, f) ==
    detectIntrusion(
        Push(clearFailedAttempts(M, f.ctx.username, f.ctx.ipAddress),
             << [k |-> "loginIntrusionChecked", ctx |-> f.ctx, userId |-> f.userId] >>),
        f.userId, <<"login", "_", "attempt">>,
        [unusual_pattern |-> FALSE, suspicious_size |-> FALSE])

\* login, lines 594-611: bcrypt.compare has returned
loginPasswordCompared(M, f) ==
    IF ~bcryptCompare(f.ctx.password, f.passwordHash)
    THEN recordFailedAttempt(Push(M, << [k |-> "loginWasBlocked"] >>),
                             f.ctx.username, f.ctx.ipAddress)
    ELSE passwordVerified(M, f)

\* login, lines 597-600
loginWasBlocked(M) ==
    IF M.task.loc.result
    THEN Resolve(M, AuthFailure("Account temporarily locked due to suspicious activity"))
    ELSE Resolve(M, AuthFailure("Invalid username or password"))

\* login, lines 613-618: detectIntrusion has returned
loginIntrusionChecked(M, f) ==
    LET intrusionCheck == M.task.loc.result
    IN  IF intrusionCheck.threat /\ intrusionCheck.action = "block_user"
        THEN Resolve(M, AuthFailure("Account temporarily suspended for security reasons"))
        ELSE Push(M, << [k |-> "updateUser", id |-> f.userId,
                         updates |-> [lastActive |-> now]],
                        [k |-> "loginToken", ctx |-> f.ctx, userId |-> f.userId] >>)

\* generateAuthToken: encryptData(JSON.stringify({userId, timestamp,
\* random})) under ENCRYPTION_KEY; random is what Math.random drew
generateAuthToken(userId, random) ==
    <<"aes", <<Num(userId), Num(now), Str(random)>>, "ENCRYPTION_KEY">>

\* login, lines 620-625: the token is made (encryptData throws when
\* ENCRYPTION_KEY is not set) and put in the secure store
loginToken(M, f) ==
    IF ~env.ENCRYPTION_KEY
    THEN Throw(M)
    ELSE LET token == generateAuthToken(f.userId, f.ctx.random)
         IN  Push(M, << [k |-> "secureSet", key |-> "auth_token", value |-> token],
                        [k |-> "secureSet", key |-> "user_id",
                         value |-> numberToString(f.userId)],
                        [k |-> "loginAudit", ctx |-> f.ctx, userId |-> f.userId,
                         token |-> token] >>)

\* login, lines 627-646
loginAudit(M, f) ==
    createAuditTrail(
        Push(M, << [k |-> "ret",
                    val |-> AuthSuccess("Login successful", f.userId, f.token)] >>),
        f.userId, "user_login",
        "User " \o f.ctx.username \o " logged in successfully", "low")

(***************************************************************************)
(* AuthService.register.                                                   *)
(***************************************************************************)
\* register, lines 495-499, up to its first await
register(M, ctx) ==
    checkRateLimit(
        Push(M, << [k |-> "registerRateChecked", ctx |-> ctx],
                   [k |-> "catch",
                    val |-> AuthFailure("Registration failed. Please try again.")] >>),
        "register", ctx.ipAddress)

\* register, lines 496-502: checkRateLimit has returned
registerRateChecked(M, f) ==
    IF ~M.task.loc.result
    THEN Resolve(M, AuthFailure("Rate limit exceeded. Please try again later."))
    ELSE Push(M, << [k |-> "getUserByUsername", for |-> "register", ctx |-> f.ctx] >>)

\* register, lines 502-513: getUserByUsername has returned
registerUserChecked(M, f) ==
    IF getUserByUsername(M.users, f.ctx.username) # {}
    THEN recordSuspiciousActivity(
             Push(M, << [k |-> "ret", val |-> AuthFailure("Username already exists")] >>),
             Str(f.ctx.username), "duplicate_registration",
             "Attempted to register existing username", f.ctx.ipAddress)
    ELSE Push(M, << [k |-> "getUserByEmail", ctx |-> f.ctx] >>)

\* register, lines 513-520: getUserByEmail has returned
registerEmailChecked(M, f) ==
    IF getUserByEmail(M.users, f.ctx.email) # {}
    THEN Resolve(M, AuthFailure("Email already exists"))
    ELSE Push(M, << [k |-> "bcryptHash", ctx |-> f.ctx] >>)

\* register, lines 518-529: bcrypt.hash has returned
registerPasswordHashed(M, f) ==
    Push(M, << [k |-> "createUser", ctx |-> f.ctx,
                insertUser |-> [username |-> f.ctx.username,
                                email |-> f.ctx.email,
                                passwordHash |-> bcryptHash(f.ctx.password),
                                displayName |-> f.ctx.username,
                                securityScore |-> 100,
                                isVerified |-> FALSE]] >>)

\* storage.createUser once the INSERT has returned: username and email are
\* UNIQUE, the id is the next of the serial, and a security log row follows
createUser(M, f) ==
    IF getUserByUsername(M.users, f.insertUser.username) # {}
           \/ getUserByEmail(M.users, f.insertUser.email) # {}
    THEN Throw(M)
    ELSE LET id == Cardinality(DOMAIN M.users) + 1
             row == f.insertUser @@ [lastActive |-> now, publicKey |-> Undefined,
                                     privateKeyEncrypted |-> Undefined]
         IN  Push([M EXCEPT !.users = (id :> row) @@ @],
                  << [k |-> "log",
                      row |-> [userId |-> id,
                               eventType |-> "user_registration",
                               eventDescription |->
                                   <<"User registered with username: " \o row.username>>,
                               riskLevel |-> "low"]],
                     [k |-> "registerChain", ctx |-> f.ctx, userId |-> id] >>)

\* new Date().toISOString()
toISOString(time) == "ISO:" \o numberToString(time)

\* register, lines 531-540: the user is registered on the chain, then the
\* three permissions are set
registerChain(M, f) ==
    registerUserOnChainCall(
        Push(M, << [k |-> "permissions", ctx |-> f.ctx, userId |-> f.userId,
                    types |-> <<"CAMERA", "MICROPHONE", "GALLERY">>] >>),
        f.userId,
        << <<"username", Str(f.ctx.username)>>,
           <<"email", Str(f.ctx.email)>>,
           <<"registrationTime", Str(toISOString(now))>> >>,
        f.ctx.keyPair)

\* register, lines 538-543: the next storage.updatePermission(id, type,
\* false), and after the last one the token
registerPermissions(M, f) ==
    IF f.types = << >>
    THEN Push(M, << [k |-> "registerToken", ctx |-> f.ctx, userId |-> f.userId] >>)
    ELSE Push(M, << [k |-> "selectPermission", userId |-> f.userId,
                     permissionType |-> Head(f.types), isGranted |-> FALSE],
                    [k |-> "permissions", ctx |-> f.ctx, userId |-> f.userId,
                     types |-> Tail(f.types)] >>)

\* storage.updatePermission, lines 270-279: the SELECT has returned
selectPermission(M, f) ==
    LET existing == {i \in 1..Len(M.permissions) :
                         /\ M.permissions[i].userId = f.userId
                         /\ M.permissions[i].permissionType = f.permissionType}
    IN  Push(M, << [k |-> "writePermission", userId |-> f.userId,
                    permissionType |-> f.permissionType, isGranted |-> f.isGranted,
                    existing |-> existing] >>)

\* storage.updatePermission, lines 281-322: the UPDATE or the INSERT has
\* returned, a security log row follows
writePermission(M, f) ==
    IF f.existing # {}
    THEN LET i == CHOOSE i \in f.existing : \A j \in f.existing : i <= j
         IN  Push([M EXCEPT !.permissions[i].isGranted = f.isGranted],
                  << [k |-> "log",
                      row |-> [userId |-> f.userId,
                               eventType |-> "permission_updated",
                               eventDescription |->
                                   <<"Permission " \o f.permissionType
                                       \o (IF f.isGranted THEN " granted" ELSE " revoked")>>,
                               riskLevel |-> IF f.isGranted THEN "low" ELSE "medium"]] >>)
    ELSE Push([M EXCEPT !.permissions =
                            Append(@, [userId |-> f.userId,
                                       permissionType |-> f.permissionType,
                                       isGranted |-> f.isGranted])],
              << [k |-> "log",
                  row |-> [userId |-> f.userId,
                           eventType |-> "permission_created",
                           eventDescription |->
                               <<"Permission " \o f.permissionType
                                   \o (IF f.isGranted THEN " granted"
                                       ELSE " created as revoked")>>,
                           riskLevel |-> "low"]] >>)

\* register, lines 542-560
registerToken(M, f) ==
    IF ~env.ENCRYPTION_KEY
    THEN Throw(M)
    ELSE LET token == generateAuthToken(f.userId, f.ctx.random)
         IN  Push(M, << [k |-> "secureSet", key |-> "auth_token", value |-> token],
                        [k |-> "secureSet", key |-> "user_id",
                         value |-> numberToString(f.userId)],
                        [k |-> "ret",
                         val |-> AuthSuccess("Registration successful", f.userId, token)] >>)

\* SecureStore.setItemAsync
setItemAsync(M, f) == [M EXCEPT !.secureStore = MapSet(@, f.key, f.value)]

(***************************************************************************)
(* AuthService: the code that runs between two awaits.                     *)
(***************************************************************************)
AuthSyncFrames ==
    {"loginRateChecked", "loginWasBlocked", "loginIntrusionChecked", "loginToken",
     "loginAudit", "registerRateChecked", "registerChain", "permissions",
     "registerToken"}

AuthAwaitFrames ==
    {"getUserByUsername", "getUserByEmail", "bcryptCompare", "bcryptHash",
     "createUser", "selectPermission", "writePermission", "secureSet"}

\* the synchronous code of AuthService at frame f, f taken off
AuthRun(M, f) ==
    CASE f.k = "loginRateChecked" -> loginRateChecked(M, f)
      [] f.k = "loginWasBlocked" -> loginWasBlocked(M)
      [] f.k = "loginIntrusionChecked" -> loginIntrusionChecked(M, f)
      [] f.k = "loginToken" -> loginToken(M, f)
      [] f.k = "loginAudit" -> loginAudit(M, f)
      [] f.k = "registerRateChecked" -> registerRateChecked(M, f)
      [] f.k = "registerChain" -> registerChain(M, f)
      [] f.k = "permissions" -> registerPermissions(M, f)
      [] f.k = "registerToken" -> registerToken(M, f)

\* the call AuthService awaits at frame f has returned, f taken off
AuthComplete(M, f) ==
    CASE f.k = "getUserByUsername" ->
             IF f.for = "login" THEN loginUserFound(M, f) ELSE registerUserChecked(M, f)
      [] f.k = "getUserByEmail" -> registerEmailChecked(M, f)
      [] f.k = "bcryptCompare" -> loginPasswordCompared(M, f)
      [] f.k = "bcryptHash" -> registerPasswordHashed(M, f)
      [] f.k = "createUser" -> createUser(M, f)
      [] f.k = "selectPermission" -> selectPermission(M, f)
      [] f.k = "writePermission" -> writePermission(M, f)
      [] f.k = "secureSet" -> setItemAsync(M, f)

(***************************************************************************)
(* The scheduler: what runs between two awaits.                            *)
(***************************************************************************)
\* Run the synchronous code at the head of the task up to its next await
RECURSIVE Run(_)
Run(M) ==
    IF M.task.status # "pending" THEN M
    ELSE IF M.task.todo = << >> THEN Resolve(M, Undefined)
    ELSE LET f == Head(M.task.todo)
         IN  CASE f.k = "ret" -> Resolve(M, f.val)
               [] f.k = "retTx" -> Resolve(M, M.task.loc.txHash)
               [] f.k = "retResult" -> Resolve(M, M.task.loc.result)
               [] f.k = "result" -> Run([Pop(M) EXCEPT !.task.loc.result = f.val])
               [] f.k = "autoBlock" -> Run(autoBlock(Pop(M), f))
               [] f.k = "catch" -> Run(Pop(M))
               [] f.k = "auditLog" ->
                      Push(Pop(M), << [k |-> "log",
                                       row |-> AuditLogRow(f, M.task.loc.txHash)] >>)
               [] f.k = "validateLoop" -> Run(validateChainIntegrity(Pop(M), f.i))
               [] f.k = "updateUserKeys" -> Run(updateUserKeys(Pop(M), f))
               [] f.k \in AuthSyncFrames -> Run(AuthRun(Pop(M), f))
               [] OTHER -> M

\* createSecurityTransaction, lines 40-56: the store answers the insert
\* (persisting the payload in persisted), then the hash is checked again
\* and txHash returned
InsertReturns(M, f, persisted) ==
    IF HasTransaction(M.ledger, f.txHash)
    THEN Throw(Pop(M))                         \* tx_hash is UNIQUE
    ELSE LET stored == [createBlockchainTransaction(f.insertTx)
                            EXCEPT !.data = persisted]
             M1 == [M EXCEPT !.ledger = Append(@, stored),
                             !.submitted = (f.txHash :> JsonbRoundTrip(f.transactionData)) @@ @]
             verificationHash == generateTransactionHash(f.transactionData)
         IN  IF verificationHash # f.txHash
             THEN Throw(Pop(M1))
             ELSE Run(Pop([M1 EXCEPT !.task.loc.txHash = f.txHash]))

\* storage.createSecurityLog throws and a ledger write made before it is
\* taken back
LogFails_Rollback(M) ==
    Throw(Pop([M EXCEPT !.ledger =
                   SelectSeq(@, LAMBDA row : row.txHash # M.task.loc.txHash)]))

\* storage.createSecurityLog throws: the exception goes up the awaiting
\* callers, nothing written before is taken back
LogFails(M) == Throw(Pop(M))

\* The storage call the task awaits returns (out.k = "ok"), throws
\* (out.k = "fail") or, for an insert, persists a payload that differs
\* from the one submitted by the change out.change (out.k = "faulty")
Complete(M, out) ==
    LET f == Head(M.task.todo)
    IN  CASE f.k = "insert" ->
               IF out.k = "fail" THEN Throw(Pop(M))
               ELSE InsertReturns(M, f,
                        IF out.k = "faulty"
                        THEN ApplyChange(JsonbRoundTrip(f.insertTx.data), out.change)
                        ELSE JsonbRoundTrip(f.insertTx.data))
          [] f.k = "log" ->
               IF out.k = "fail" THEN LogFails(M)
               ELSE Run(Pop([M EXCEPT !.securityLogs =
                                          Append(@, createSecurityLog(f.row))]))
          [] f.k = "get" ->
               IF out.k = "fail" THEN Throw(Pop(M))
               ELSE LET found == HasTransaction(M.ledger, f.txHash)
                        dbData == getBlockchainTransaction(M.ledger, f.txHash)
                    IN  Run(verifyTransaction(
                                Pop([M EXCEPT !.task.loc.found = found,
                                              !.task.loc.dbData = dbData]),
                                f.txHash, found, dbData))
          [] f.k = "updateUser" ->
               IF out.k = "fail" THEN Throw(Pop(M))
               ELSE Run(updateUser(Pop(M), f))
          [] f.k = "getUser" ->
               IF out.k = "fail" THEN Throw(Pop(M))
               ELSE Run(permissionUserFound(Pop(M), f))
          [] f.k \in AuthAwaitFrames ->
               IF out.k = "fail" THEN Throw(Pop(M))
               ELSE Run(AuthComplete(Pop(M), f))
          [] f.k = "list" ->
               \* getAllTransactions catches the failure and returns []
               LET all == IF out.k = "fail" THEN << >>
                          ELSE getAllBlockchainTransactions(M.ledger)
               IN  Run(validateChainIntegrity(
                           Pop([M EXCEPT !.task.loc.allTransactions = all]), 1))


(***************************************************************************)
(* Inputs of the calls.                                                    *)
(***************************************************************************)
NowStart == 4000000
UserIds == {1, 2}
RiskLevels == {"low", "medium", "high", "critical"}
EventData == { << <<"userId", Num(1)>> >>, << <<"description", Str("d")>> >> }
OptionalUserIds == {Undefined, Num(1)}
KeyPairs == { [publicKey |-> "pub1", privateKey |-> "priv1"] }
UserData == { << <<"username", Str("alice")>> >> }
NoSuchHash == SHA256(<< >>)

Changes ==
    { [path |-> <<"timestamp">>, val |-> Num(0)],
      [path |-> <<"eventType">>, val |-> Str("forged")],
      [path |-> <<"userId">>, val |-> Num(9)],
      [path |-> <<"blockNumber">>, val |-> Num(0)],
      [path |-> <<"data", "timestamp">>, val |-> Num(0)],
      [path |-> <<"data", "userId">>, val |-> Num(9)],
      [path |-> <<"data", "description">>, val |-> Str("forged")],
      [path |-> <<"data", "riskLevel">>, val |-> Str("forged")],
      [path |-> <<"data", "messageHash">>, val |-> Str("forged")] }

(***************************************************************************)
(* Capacity of the model: ledger rows and log rows still to be written by  *)
(* the calls in flight.                                                    *)
(***************************************************************************)
Frames(t) == tasks[t].todo

\* ledger rows the frames of a call will still ask for
WillBlock(todo) ==
    \E i \in 1..Len(todo) :
        todo[i].k = "autoBlock" /\ todo[i].newCount > SUSPICIOUS_THRESHOLD

PendingAppends == Cardinality({t \in TaskIds : WillBlock(Frames(t))})

RECURSIVE LogsOf(_)
LogsOf(todo) ==
    IF todo = << >> THEN 0
    ELSE LogsOf(Tail(todo)) +
         (CASE Head(todo).k \in {"log", "auditLog", "updateUserKeys", "updateUser", "get"} -> 1
            [] Head(todo).k = "autoBlock" -> 1
            [] Head(todo).k \in {"list", "validateLoop"} -> MaxLedger
            [] OTHER -> 0)

RECURSIVE PendingLogsUpTo(_)
PendingLogsUpTo(n) == IF n = 0 THEN 0 ELSE PendingLogsUpTo(n - 1) + LogsOf(Frames(n))

CanAppend(n) == currentBlockNumber + PendingAppends + n <= MaxLedger
CanLog(n) == Len(securityLogs) + PendingLogsUpTo(MaxTasks) + n <= MaxLogs

Free(t) == tasks[t].status # "pending"

\* the first free slot takes the call (slots are interchangeable)
Slot(t) == Free(t) /\ \A u \in TaskIds : u < t => ~Free(u)

(***************************************************************************)
(* Actions.                                                                *)
(***************************************************************************)
\* a finished call keeps its result up to the next step, then its slot is idle
Collected == [u \in TaskIds |-> IF Free(u) THEN IdleTask ELSE tasks[u]]

Commit(t, M) ==
    /\ ledger' = M.ledger
    /\ securityLogs' = M.securityLogs
    /\ currentBlockNumber' = M.currentBlockNumber
    /\ blockedIPs' = M.blockedIPs
    /\ rateLimits' = M.rateLimits
    /\ failedAttempts' = M.failedAttempts
    /\ suspiciousActivities' = M.suspiciousActivities
    /\ users' = M.users
    /\ permissions' = M.permissions
    /\ secureStore' = M.secureStore
    /\ submitted' = M.submitted
    /\ tasks' = [Collected EXCEPT ![t] = M.task]
    /\ UNCHANGED <<env, now>>

\* a step of the ledger: the firewall history is not touched
CommitLedger(t, M) == Commit(t, M) /\ UNCHANGED hist

Begin(t, op, arg) == [Machine(t) EXCEPT !.task = NewTask(op, arg)]

CallCreateSecurityTransaction(t) ==
    /\ Slot(t) /\ CanAppend(1)
    /\ \E data \in EventData, userId \in OptionalUserIds :
          CommitLedger(t, Run(createSecurityTransaction(
                            Push(Begin(t, "createSecurityTransaction",
                                       [data |-> data, userId |-> userId]),
                                 << [k |-> "retTx"] >>),
                            "custom_event", data, userId)))

CallCreateAuditTrail(t) ==
    /\ Slot(t) /\ CanAppend(1) /\ CanLog(1)
    /\ \E userId \in {1}, riskLevel \in RiskLevels :
          CommitLedger(t, Run(createAuditTrail(
                            Push(Begin(t, "createAuditTrail",
                                       [userId |-> userId, riskLevel |-> riskLevel]),
                                 << [k |-> "retTx"] >>),
                            userId, "user_login", "d", riskLevel)))

CallRegisterUserOnChain(t) ==
    /\ Slot(t) /\ CanAppend(1) /\ CanLog(1)
    /\ \E userId \in UserIds, userData \in UserData, keyPair \in KeyPairs :
          CommitLedger(t, Run(registerUserOnChain(
                            Begin(t, "registerUserOnChain", [userId |-> userId]),
                            userId, userData, keyPair)))

CallRecordMessageOnChain(t) ==
    /\ Slot(t) /\ CanAppend(1)
    /\ CommitLedger(t, Run(recordMessageOnChain(
                         Begin(t, "recordMessageOnChain", << >>),
                         "m1", 1, 2, "mh")))

\* the hashes a caller can hold: those of the calls made so far
KnownHashes ==
    {ledger[i].txHash : i \in 1..Len(ledger)} \cup {NoSuchHash}
    \cup {Frames(t)[1].txHash : t \in {u \in TaskIds : Frames(u) # << >> /\ Frames(u)[1].k = "insert"}}

CallVerifyTransaction(t) ==
    /\ Slot(t) /\ CanLog(1)
    /\ \E txHash \in KnownHashes :
          CommitLedger(t, Push(Begin(t, "verifyTransaction", [txHash |-> txHash]),
                         << [k |-> "get", txHash |-> txHash],
                            [k |-> "catch", val |-> FALSE] >>))

CallValidateChainIntegrity(t) ==
    /\ Slot(t) /\ CanLog(MaxLedger)
    /\ CommitLedger(t, Push(Begin(t, "validateChainIntegrity", << >>),
                      << [k |-> "list"],
                         [k |-> "catch",
                          val |-> [valid |-> FALSE, corruptedTransactions |-> << >>]] >>))

Awaiting(t) == tasks[t].status = "pending" /\ tasks[t].todo # << >>

\* the storage call task t awaits returns
StorageReturns(t) ==
    /\ Awaiting(t)
    /\ CommitLedger(t, Complete(Machine(t), [k |-> "ok"]))

\* the storage call task t awaits throws
StorageFails(t) ==
    /\ Awaiting(t)
    /\ CommitLedger(t, Complete(Machine(t), [k |-> "fail"]))

\* a faulty store: the insert task t awaits persists another payload
StorageFaulty(t) ==
    /\ Awaiting(t)
    /\ Head(tasks[t].todo).k = "insert"
    /\ \E c \in Changes :
          /\ ChangeApplies(JsonbRoundTrip(Head(tasks[t].todo).insertTx.data), c)
          /\ CommitLedger(t, Complete(Machine(t), [k |-> "faulty", change |-> c]))

Tampered(i) == ledger[i].data # submitted[ledger[i].txHash]

\* a stored payload is changed directly in the database
Tamper ==
    /\ Cardinality({i \in 1..Len(ledger) : Tampered(i)}) < MaxTampered
    /\ \E i \in 1..Len(ledger), c \in Changes :
          /\ ~Tampered(i)
          /\ ChangeApplies(ledger[i].data, c)
          /\ ApplyChange(ledger[i].data, c) # ledger[i].data
          /\ ledger' = [ledger EXCEPT ![i].data = ApplyChange(@, c)]
    /\ tasks' = Collected
    /\ UNCHANGED <<securityLogs, currentBlockNumber, blockedIPs, rateLimits,
                   failedAttempts, suspiciousActivities, users, permissions,
                   secureStore, env, now, submitted, hist>>

\* time passes: a millisecond
Tick ==
    /\ (now - NowStart) % RATE_LIMIT_WINDOW < MaxTicks
    /\ now' = now + 1
    /\ tasks' = Collected
    /\ UNCHANGED <<ledger, securityLogs, currentBlockNumber, blockedIPs,
                   rateLimits, failedAttempts, suspiciousActivities, users,
                   permissions, secureStore, env, submitted, hist>>

\* time passes: the length of a rate-limit window
TickWindow ==
    /\ now + RATE_LIMIT_WINDOW <= NowStart + MaxWindows * RATE_LIMIT_WINDOW + MaxTicks
    /\ now' = now + RATE_LIMIT_WINDOW
    /\ tasks' = Collected
    /\ UNCHANGED <<ledger, securityLogs, currentBlockNumber, blockedIPs,
                   rateLimits, failedAttempts, suspiciousActivities, users,
                   permissions, secureStore, env, submitted, hist>>

\* the state after construction but for the calls, with the keys of the
\* environment as in e
InitShared(e) ==
    /\ ledger = << >>
    /\ securityLogs = << >>
    /\ currentBlockNumber = 0
    /\ blockedIPs = knownMaliciousIPs
    /\ rateLimits = << >>
    /\ failedAttempts = << >>
    /\ suspiciousActivities = << >>
    /\ users = [id \in {1} |-> [username |-> "alice",
                                email |-> "alice@x",
                                passwordHash |-> bcryptHash("pw"),
                                displayName |-> "alice",
                                securityScore |-> 100,
                                isVerified |-> FALSE,
                                lastActive |-> NowStart,
                                publicKey |-> Undefined,
                                privateKeyEncrypted |-> Undefined]]
    /\ permissions = << >>
    /\ secureStore = << >>
    /\ env = e
    /\ now = NowStart
    /\ submitted = << >>
    /\ hist = [window |-> << >>, streak |-> << >>]

\* no call has been made
InitWith(e) == InitShared(e) /\ tasks = [t \in TaskIds |-> IdleTask]

Init == InitWith([ENCRYPTION_KEY |-> TRUE, MASTER_ENCRYPTION_KEY |-> TRUE])

LedgerCalls(t) ==
    \/ CallCreateSecurityTransaction(t)
    \/ CallCreateAuditTrail(t)
    \/ CallRegisterUserOnChain(t)
    \/ CallRecordMessageOnChain(t)
    \/ CallVerifyTransaction(t)
    \/ CallValidateChainIntegrity(t)

\* the ledger with a working store and no direct change of the database
Next ==
    \/ \E t \in TaskIds : LedgerCalls(t)
    \/ \E t \in TaskIds : StorageReturns(t)
    \/ Tick

Spec == Init /\ [][Next]_vars

(***************************************************************************)
(* Appends only: concurrent createSecurityTransaction calls over a working *)
(* store.                                                                  *)
(***************************************************************************)
NextAppend ==
    \/ \E t \in TaskIds : CallCreateSecurityTransaction(t)
    \/ \E t \in TaskIds : StorageReturns(t)
    \/ Tick

SpecAppend == Init /\ [][NextAppend]_vars

\* the inserts the calls in flight are suspended on
InFlight == {t \in TaskIds : Awaiting(t) /\ Head(Frames(t)).k = "insert"}

StoredBlockNumbers == {ledger[i].blockNumber : i \in 1..Len(ledger)}
InFlightBlockNumbers == {Head(Frames(t)).insertTx.blockNumber : t \in InFlight}

\* C2: concurrent createSecurityTransaction calls get the block numbers
\* k+1, ..., k+N: block numbers handed out so far are exactly
\* 1..currentBlockNumber, each to one call (stored or still in flight), no
\* two entries share one, and once every call has returned the stored
\* entries carry exactly 1..N, in the column and in the hashed payload.
C2_MonotonicBlockNumbers ==
    /\ \A i, j \in 1..Len(ledger) :
          i # j => ledger[i].blockNumber # ledger[j].blockNumber
    /\ \A t, u \in InFlight :
          t # u => Head(Frames(t)).insertTx.blockNumber
                       # Head(Frames(u)).insertTx.blockNumber
    /\ StoredBlockNumbers \cap InFlightBlockNumbers = {}
    /\ StoredBlockNumbers \cup InFlightBlockNumbers = 1..currentBlockNumber
    /\ \A i \in 1..Len(ledger) :
          GetProp(ledger[i].data, "blockNumber") = Num(ledger[i].blockNumber)
    /\ InFlight = {} => StoredBlockNumbers = 1..Len(ledger)

\* two calls were in flight together and the store answered the later one
\* first: both entries are stored, block 2 before block 1
C2_Witness ==
    /\ Len(ledger) >= 2
    /\ ledger[1].blockNumber = 2
    /\ ledger[2].blockNumber = 1

(***************************************************************************)
(* The audit trail over a store whose calls may fail.                      *)
(***************************************************************************)
NextAudit ==
    \/ \E t \in TaskIds : CallCreateAuditTrail(t)
    \/ \E t \in TaskIds : StorageReturns(t)
    \/ \E t \in TaskIds : StorageFails(t)
    \/ Tick

SpecAudit == Init /\ [][NextAudit]_vars

LedgerRowsOf(h) == {i \in 1..Len(ledger) : ledger[i].txHash = h}
LogRowsOf(h) == {i \in 1..Len(securityLogs) : securityLogs[i].blockchainHash = h}

Succeeded(t, op) == tasks[t].op = op /\ tasks[t].status = "resolved"
Failed(t, op) == tasks[t].op = op /\ tasks[t].status = "rejected"

\* C9: a createAuditTrail call that returns txHash has written exactly one
\* ledger entry of that hash, of txType security_audit, and exactly one
\* security log row whose blockchainHash is txHash, with the risk level of
\* the call and isAnomaly set exactly for high and critical.
C9_AuditTrailWrites ==
    \A t \in TaskIds :
        Succeeded(t, "createAuditTrail") =>
            /\ Cardinality(LedgerRowsOf(tasks[t].ret)) = 1
            /\ \A i \in LedgerRowsOf(tasks[t].ret) :
                  ledger[i].txType = "security_audit"
            /\ Cardinality(LogRowsOf(tasks[t].ret)) = 1
            /\ \A i \in LogRowsOf(tasks[t].ret) :
                  /\ securityLogs[i].riskLevel = tasks[t].arg.riskLevel
                  /\ securityLogs[i].userId = tasks[t].arg.userId
                  /\ securityLogs[i].isAnomaly =
                         (tasks[t].arg.riskLevel \in {"high", "critical"})

\* a call with risk level high has returned and its log row is an anomaly
C9_Witness ==
    \E t \in TaskIds :
        /\ Succeeded(t, "createAuditTrail")
        /\ tasks[t].arg.riskLevel = "high"
        /\ \E i \in LogRowsOf(tasks[t].ret) : securityLogs[i].isAnomaly

\* C10: every security log row that carries a blockchainHash points to a
\* ledger entry that is stored, and a createAuditTrail call that failed
\* after its ledger write (the log write threw) leaves the ledger entry in
\* place, with no log row for it.
C10_LedgerIsSourceOfTruth ==
    /\ \A i \in 1..Len(securityLogs) :
          securityLogs[i].blockchainHash # Undefined =>
              HasTransaction(ledger, securityLogs[i].blockchainHash)
    /\ \A t \in TaskIds :
          (Failed(t, "createAuditTrail") /\ tasks[t].loc.txHash # Undefined) =>
              /\ HasTransaction(ledger, tasks[t].loc.txHash)
              /\ LogRowsOf(tasks[t].loc.txHash) = {}

\* the log write of a call failed after its ledger write
C10_Witness ==
    \E t \in TaskIds :
        /\ Failed(t, "createAuditTrail")
        /\ tasks[t].loc.txHash # Undefined
        /\ HasTransaction(ledger, tasks[t].loc.txHash)
        /\ LogRowsOf(tasks[t].loc.txHash) = {}

(***************************************************************************)
(* The firewall, one call after the other.                                 *)
(***************************************************************************)
RateIdentifiers == {"login"}
Identifiers == {"bob"}
IPs == {"9.9.9.9"}

Quiescent == \A u \in TaskIds : Free(u)

\* the ledger rows written and still to be written by M's call stay within cap
Fits(M, cap) ==
    M.currentBlockNumber + (IF WillBlock(M.task.todo) THEN 1 ELSE 0) <= cap

Min(a, b) == IF a < b THEN a ELSE b

\* the caller's count of its calls: a window opens with the first call made
\* when none is open and lasts RATE_LIMIT_WINDOW milliseconds
WindowOpen(key) ==
    key \in DOMAIN hist.window /\ now <= hist.window[key].start + RATE_LIMIT_WINDOW

\* a checkRateLimit call made while no call is in flight, the ledger rows it
\* asks for staying within cap
CheckRateLimitCall(t, cap) ==
    /\ Slot(t) /\ Quiescent
    /\ \E identifier \in RateIdentifiers, ipAddress \in IPs :
          LET key == FirewallKey(identifier, ipAddress)
              n == IF WindowOpen(key) THEN hist.window[key].n + 1 ELSE 1
              start == IF WindowOpen(key) THEN hist.window[key].start ELSE now
              M == Run(checkRateLimit(
                           Push(Begin(t, "checkRateLimit",
                                      [identifier |-> identifier,
                                       ipAddress |-> ipAddress, n |-> n]),
                                << [k |-> "retResult"] >>),
                           identifier, ipAddress))
          IN  /\ Fits(M, cap)
              /\ Commit(t, M)
              /\ hist' = [hist EXCEPT !.window =
                                          MapSet(@, key, [n |-> n, start |-> start])]

CallCheckRateLimit(t) == CheckRateLimitCall(t, MaxLedger)

\* a recordFailedAttempt call made while no call is in flight, the ledger
\* rows it asks for staying within cap
RecordFailedAttemptCall(t, cap) ==
    /\ Slot(t) /\ Quiescent
    /\ \E identifier \in Identifiers, ipAddress \in IPs :
          LET key == FirewallKey(identifier, ipAddress)
              n == MapGet(hist.streak, key, 0) + 1
              M == Run(recordFailedAttempt(
                           Push(Begin(t, "recordFailedAttempt",
                                      [identifier |-> identifier,
                                       ipAddress |-> ipAddress, n |-> n,
                                       ledger |-> Len(ledger),
                                       securityLogs |-> Len(securityLogs)]),
                                << [k |-> "retResult"] >>),
                           identifier, ipAddress))
          IN  /\ Fits(M, cap)
              /\ Commit(t, M)
              /\ hist' = [hist EXCEPT !.streak = MapSet(@, key, n)]

CallRecordFailedAttempt(t) == RecordFailedAttemptCall(t, MaxAttempts)

CallClearFailedAttempts ==
    /\ Quiescent
    /\ \E identifier \in Identifiers, ipAddress \in IPs :
          LET key == FirewallKey(identifier, ipAddress)
          IN  /\ key \in DOMAIN hist.streak /\ hist.streak[key] > 0
              /\ failedAttempts' =
                     clearFailedAttempts(Machine(1), identifier, ipAddress).failedAttempts
              /\ hist' = [hist EXCEPT !.streak = MapSet(@, key, 0)]
    /\ tasks' = Collected
    /\ UNCHANGED <<ledger, securityLogs, currentBlockNumber, blockedIPs,
                   rateLimits, suspiciousActivities, users, permissions,
                   secureStore, env, now, submitted>>

NextRate ==
    \/ \E t \in TaskIds : CallCheckRateLimit(t)
    \/ \E t \in TaskIds : StorageReturns(t)
    \/ Tick
    \/ TickWindow

SpecRate == Init /\ [][NextRate]_vars

NextLockout ==
    \/ \E t \in TaskIds : CallRecordFailedAttempt(t)
    \/ CallClearFailedAttempts
    \/ \E t \in TaskIds : StorageReturns(t)

SpecLockout == Init /\ [][NextLockout]_vars

\* C3: of the checkRateLimit calls on one key, the first
\* MAX_REQUESTS_PER_MINUTE of a window return true and every further one of
\* that window returns false; the first call after the window has expired
\* (now > resetTime) is call 1 of a new window: it returns true and the
\* entry is count 1 with a new reset time.
C3_RateLimitBoundary ==
    /\ \A t \in TaskIds :
          Succeeded(t, "checkRateLimit") =>
              tasks[t].ret = (tasks[t].arg.n <= MAX_REQUESTS_PER_MINUTE)
    /\ \A key \in DOMAIN hist.window :
          /\ key \in DOMAIN rateLimits
          /\ rateLimits[key].count = Min(hist.window[key].n, MAX_REQUESTS_PER_MINUTE)
          /\ rateLimits[key].resetTime = hist.window[key].start + RATE_LIMIT_WINDOW

\* the limit was exceeded, the window expired and the next call was let
\* through as the first of a new window
C3_Witness ==
    \E t \in TaskIds :
        /\ Succeeded(t, "checkRateLimit")
        /\ tasks[t].ret = TRUE
        /\ tasks[t].arg.n = 1
        /\ suspiciousActivities # << >>
        /\ rateLimits[FirewallKey(tasks[t].arg.identifier, tasks[t].arg.ipAddress)]
               = [count |-> 1, resetTime |-> now + RATE_LIMIT_WINDOW]

\* C4: counting the recordFailedAttempt calls on a key from its last
\* clearFailedAttempts (or from the start), calls 1 to 4 return false, call 5
\* returns true with the IP blocked; the stored counter is that count, 0
\* after clearFailedAttempts; and an IP joins the blocked set only in a
\* step that starts a call whose count has reached MAX_FAILED_ATTEMPTS.
C4_FailedAttemptLockout ==
    /\ [](/\ \A t \in TaskIds :
                Succeeded(t, "recordFailedAttempt") =>
                    /\ tasks[t].ret = (tasks[t].arg.n >= MAX_FAILED_ATTEMPTS)
                    /\ tasks[t].ret => isIPBlocked(blockedIPs, tasks[t].arg.ipAddress)
           /\ \A key \in DOMAIN hist.streak :
                MapGet(failedAttempts, key, 0) = hist.streak[key])
    /\ [][\A ip \in blockedIPs' \ blockedIPs :
              \E t \in TaskIds :
                  /\ Free(t)
                  /\ tasks'[t].op = "recordFailedAttempt"
                  /\ tasks'[t].status = "pending"
                  /\ tasks'[t].arg.ipAddress = ip
                  /\ tasks'[t].arg.n >= MAX_FAILED_ATTEMPTS]_vars

\* four attempts, clearFailedAttempts, and the fifth attempt after it has
\* returned true: nine attempts were audited
C4_Witness ==
    \E t \in TaskIds :
        /\ Succeeded(t, "recordFailedAttempt")
        /\ tasks[t].ret = TRUE
        /\ tasks[t].arg.n = MAX_FAILED_ATTEMPTS
        /\ Len(ledger) = 9

(***************************************************************************)
(* The ledger with direct changes of stored payloads, and the ledger over  *)
(* a store that may persist another payload than the one submitted.        *)
(***************************************************************************)
NextTamper ==
    \/ \E t \in TaskIds : CallCreateAuditTrail(t)
    \/ \E t \in TaskIds : CallVerifyTransaction(t)
    \/ \E t \in TaskIds : CallValidateChainIntegrity(t)
    \/ \E t \in TaskIds : StorageReturns(t)
    \/ Tamper

SpecTamper == Init /\ [][NextTamper]_vars

NextFaulty ==
    \/ \E t \in TaskIds : CallCreateSecurityTransaction(t)
    \/ \E t \in TaskIds : StorageReturns(t)
    \/ \E t \in TaskIds : StorageFaulty(t)
    \/ Tick

SpecFaulty == Init /\ [][NextFaulty]_vars

\* C1: a verifyTransaction call that read an entry whose stored payload
\* differs from the payload created for it returns false, and a
\* validateChainIntegrity call lists every such entry it read.
C1_TamperDetection ==
    \A t \in TaskIds :
        /\ (Succeeded(t, "verifyTransaction") /\ tasks[t].loc.found
                /\ tasks[t].loc.dbData.data # submitted[tasks[t].arg.txHash])
              => tasks[t].ret = FALSE
        /\ Succeeded(t, "validateChainIntegrity") =>
              \A i \in 1..Len(tasks[t].loc.allTransactions) :
                  LET row == tasks[t].loc.allTransactions[i]
                  IN  row.data # submitted[row.txHash] =>
                          row.txHash \in Range(tasks[t].ret.corruptedTransactions)

\* C5: recomputing the hash from the stored data of any ledger entry
\* yields its stored txHash.
C5_HashInvariant ==
    \A i \in 1..Len(ledger) :
        generateTransactionHash(ledger[i].data) = ledger[i].txHash

\* C6: a createSecurityTransaction call returns its txHash only if the
\* store holds, under that hash, the payload the call submitted.
C6_AppendDoubleCheck ==
    \A t \in TaskIds :
        Succeeded(t, "createSecurityTransaction") =>
            getBlockchainTransaction(ledger, tasks[t].ret).data
                = submitted[tasks[t].ret]

\* the log row verifyTransaction writes for txHash h
IsTamperLog(row, h) ==
    /\ row.eventType = "blockchain_tampering_detected"
    /\ row.riskLevel = "critical"
    /\ row.isAnomaly = TRUE
    /\ row.eventDescription[Len(row.eventDescription)] = h

\* task t is a verifyTransaction call in flight that this step advances
VerifyAdvances(t) ==
    /\ tasks[t].op = "verifyTransaction"
    /\ tasks[t].status = "pending"
    /\ tasks'[t] # tasks[t]

\* the recomputed hash of the row a verifyTransaction call read differs from txHash
FoundMismatch(task) ==
    /\ task.loc.found
    /\ generateTransactionHash(task.loc.dbData.data) # task.arg.txHash

\* C7: a verifyTransaction call that finds the recomputed hash different
\* from txHash writes no log row when the read returns, then writes exactly
\* one, critical and anomalous and naming txHash, and returns false; a call
\* on a missing entry or on a matching one returns (false / true) from the
\* read with the security log unchanged.
C7_MismatchIsLogged ==
    [][\A t \in TaskIds :
           VerifyAdvances(t) =>
               IF Head(tasks[t].todo).k = "get"
               THEN /\ securityLogs' = securityLogs
                    /\ IF FoundMismatch(tasks'[t])
                       THEN /\ tasks'[t].status = "pending"
                            /\ Head(tasks'[t].todo).k = "log"
                       ELSE /\ tasks'[t].status = "resolved"
                            /\ tasks'[t].ret = tasks'[t].loc.found
               ELSE /\ FoundMismatch(tasks[t])
                    /\ Len(securityLogs') = Len(securityLogs) + 1
                    /\ SubSeq(securityLogs', 1, Len(securityLogs)) = securityLogs
                    /\ IsTamperLog(securityLogs'[Len(securityLogs')], tasks[t].arg.txHash)
                    /\ tasks'[t].status = "resolved"
                    /\ tasks'[t].ret = FALSE]_vars

\* a verifyTransaction call on an entry with a changed payload has returned
\* false and its log row is the last one written
C7_Witness ==
    \E t \in TaskIds :
        /\ Succeeded(t, "verifyTransaction")
        /\ tasks[t].ret = FALSE
        /\ FoundMismatch(tasks[t])
        /\ tasks[t].loc.dbData.data # submitted[tasks[t].arg.txHash]
        /\ securityLogs # << >>
        /\ IsTamperLog(securityLogs[Len(securityLogs)], tasks[t].arg.txHash)

\* C8: with no payload changed in the database, a verifyTransaction call
\* on a stored entry returns true.
C8_IdempotentVerification ==
    \A t \in TaskIds :
        (Succeeded(t, "verifyTransaction") /\ tasks[t].loc.found)
            => tasks[t].ret = TRUE

(***************************************************************************)
(* A burst of requests from one address: checkRateLimit calls only.        *)
(***************************************************************************)
\* every over-limit call writes an audit row, the one that crosses
\* SUSPICIOUS_THRESHOLD a second one
CallCheckRateLimitBurst(t) == CheckRateLimitCall(t, MaxExceeded + 1)

NextBurst ==
    \/ \E t \in TaskIds : CallCheckRateLimitBurst(t)
    \/ \E t \in TaskIds : StorageReturns(t)
    \/ Tick

SpecBurst == Init /\ [][NextBurst]_vars

\* `${identifier}:rate_limit_exceeded`
ExceededKey(identifier) == identifier \o ":" \o "rate_limit_exceeded"

\* C11: a checkRateLimit call that finds the limit exceeded returns false
\* and counts one suspicious-activity occurrence, and checkRateLimit calls
\* alone add no IP to the blocked set.
C11_RateLimitNeverBlocks ==
    /\ \A t \in TaskIds :
          (Succeeded(t, "checkRateLimit")
               /\ tasks[t].arg.n > MAX_REQUESTS_PER_MINUTE) =>
              /\ tasks[t].ret = FALSE
              /\ MapGet(suspiciousActivities, ExceededKey(tasks[t].arg.identifier), 0)
                     = tasks[t].arg.n - MAX_REQUESTS_PER_MINUTE
    /\ blockedIPs = knownMaliciousIPs

(***************************************************************************)
(* The periodic sweep among rate-limit and failed-attempt calls.           *)
(***************************************************************************)
CallCleanupSecurityData(t) ==
    /\ Slot(t)
    /\ Commit(t, Run(cleanupSecurityData(Begin(t, "cleanupSecurityData", << >>))))
    /\ UNCHANGED hist

\* a checkRateLimit call, at most MaxRequests of them on a key per window
CallCheckRateLimitFew(t) ==
    /\ \A key \in DOMAIN hist.window :
           WindowOpen(key) => hist.window[key].n < MaxRequests
    /\ CallCheckRateLimit(t)

CallRecordFailedAttemptFew(t) == RecordFailedAttemptCall(t, MaxLedger + 1)

NextCleanup ==
    \/ \E t \in TaskIds : CallCheckRateLimitFew(t)
    \/ \E t \in TaskIds : CallRecordFailedAttemptFew(t)
    \/ \E t \in TaskIds : CallCleanupSecurityData(t)
    \/ \E t \in TaskIds : StorageReturns(t)
    \/ TickWindow

SpecCleanup == Init /\ [][NextCleanup]_vars

\* this step is a cleanupSecurityData call in slot t
CleanupStep(t) ==
    /\ Free(t)
    /\ tasks'[t].op = "cleanupSecurityData"
    /\ tasks'[t].status = "resolved"

\* C12: a cleanupSecurityData call made less than one hour after the
\* service started (so that every failed-attempt entry is younger than one
\* hour) deletes exactly the rate-limit entries whose reset time has passed
\* and leaves the failed-attempt counters as they are.
C12_CleanupKeepsFreshEntries ==
    [][\A t \in TaskIds :
           (CleanupStep(t) /\ now < NowStart + OneHour) =>
               /\ rateLimits' =
                      [key \in {k \in DOMAIN rateLimits : now <= rateLimits[k].resetTime}
                           |-> rateLimits[key]]
               /\ failedAttempts' = failedAttempts]_vars

(***************************************************************************)
(* Intrusion detection: recordSuspiciousActivity calls that report rapid   *)
(* activity of a user, and detectIntrusion calls, one after the other.     *)
(***************************************************************************)
Activities ==
    { <<"login", "_", "attempt">>,
      <<"permission", "_", "request">>,
      <<"file_access">>,
      <<"file_access", "_", "permission">> }

Metadata == [unusual_pattern : BOOLEAN, suspicious_size : BOOLEAN]

\* the audit records detectIntrusion calls have written
DetectionRows ==
    {i \in 1..Len(securityLogs) : securityLogs[i].eventType = "intrusion_detected"}

CallRecordSuspiciousActivity(t) ==
    /\ Slot(t) /\ Quiescent
    /\ \E userId \in {1}, ipAddress \in IPs :
          LET M == Run(recordSuspiciousActivity(
                           Begin(t, "recordSuspiciousActivity",
                                 [userId |-> userId, ipAddress |-> ipAddress]),
                           Num(userId), "rapid_activity", "burst", ipAddress))
          IN  /\ M.suspiciousActivities[numberToString(userId) \o ":rapid_activity"]
                     <= MaxRapid
              /\ Commit(t, M)
    /\ UNCHANGED hist

\* the signals of a detectIntrusion call, as the caller can tell them
Signals(userId, activity, metadata) ==
    { sig \in {"rapid", "permission", "file"} :
        \/ sig = "rapid"
              /\ MapGet(suspiciousActivities,
                        numberToString(userId) \o ":rapid_activity", 0) >= 21
        \/ sig = "permission"
              /\ activity \in { <<"permission", "_", "request">>,
                                <<"file_access", "_", "permission">> }
              /\ metadata.unusual_pattern
        \/ sig = "file"
              /\ activity \in { <<"file_access">>,
                                <<"file_access", "_", "permission">> }
              /\ metadata.suspicious_size }

CallDetectIntrusion(t) ==
    /\ Slot(t) /\ Quiescent
    /\ \E userId \in {1}, activity \in Activities, metadata \in Metadata :
          LET M == Run(detectIntrusion(
                           Push(Begin(t, "detectIntrusion",
                                      [userId |-> userId,
                                       signals |-> Cardinality(Signals(userId, activity, metadata)),
                                       ledger |-> Len(ledger),
                                       securityLogs |-> Len(securityLogs)]),
                                << [k |-> "retResult"] >>),
                           userId, activity, metadata))
          IN  /\ Signals(userId, activity, metadata) # {} =>
                     Cardinality(DetectionRows) < MaxDetections
              /\ Commit(t, M)
    /\ UNCHANGED hist

NextIntrusion ==
    \/ \E t \in TaskIds : CallRecordSuspiciousActivity(t)
    \/ \E t \in TaskIds : CallDetectIntrusion(t)
    \/ \E t \in TaskIds : StorageReturns(t)

SpecIntrusion == Init /\ [][NextIntrusion]_vars

\* C18: detectIntrusion answers by the number of matched signals: none
\* gives no threat / none / continue, one gives medium / monitor, two give
\* high / require_verification, three give critical / block_user.
C18_IntrusionScoring ==
    \A t \in TaskIds :
        Succeeded(t, "detectIntrusion") =>
            tasks[t].ret =
                CASE tasks[t].arg.signals = 0 ->
                         [threat |-> FALSE, level |-> "none", action |-> "continue"]
                  [] tasks[t].arg.signals = 1 ->
                         [threat |-> TRUE, level |-> "medium", action |-> "monitor"]
                  [] tasks[t].arg.signals = 2 ->
                         [threat |-> TRUE, level |-> "high", action |-> "require_verification"]
                  [] tasks[t].arg.signals = 3 ->
                         [threat |-> TRUE, level |-> "critical", action |-> "block_user"]

\* a call with all three signals has answered block_user
C18_Witness ==
    \E t \in TaskIds :
        /\ Succeeded(t, "detectIntrusion")
        /\ tasks[t].arg.signals = 3
        /\ tasks[t].ret.action = "block_user"

\* this step starts or advances a detectIntrusion call in slot t
DetectStep(t) ==
    /\ tasks'[t].op = "detectIntrusion"
    /\ tasks'[t] # tasks[t]

\* C19: no step of a detectIntrusion call changes blockedIPs, rateLimits,
\* failedAttempts or suspiciousActivities, whatever the action it answers;
\* a call that has returned has written one audit record (one ledger
\* entry and its log row, of event intrusion_detected) when at least one
\* signal matched and nothing otherwise.
C19_DetectOnlyDecides ==
    /\ [][\A t \in TaskIds :
              DetectStep(t) =>
                  UNCHANGED <<blockedIPs, rateLimits, failedAttempts,
                              suspiciousActivities>>]_vars
    /\ [](\A t \in TaskIds :
              Succeeded(t, "detectIntrusion") =>
                  LET n == IF tasks[t].arg.signals >= 1 THEN 1 ELSE 0
                  IN  /\ Len(ledger) = tasks[t].arg.ledger + n
                      /\ Len(securityLogs) = tasks[t].arg.securityLogs + n
                      /\ n = 1 =>
                            securityLogs[Len(securityLogs)].eventType
                                = "intrusion_detected")

\* a call has answered block_user, the address that reported the rapid
\* activity being blocked by the reports alone, and has written its record
C19_Witness ==
    \E t \in TaskIds :
        /\ Succeeded(t, "detectIntrusion")
        /\ tasks[t].ret.action = "block_user"
        /\ Len(ledger) = tasks[t].arg.ledger + 1
        /\ securityLogs[Len(securityLogs)].eventType = "intrusion_detected"

(***************************************************************************)
(* Reading the ledger over a store whose calls may fail, with no direct    *)
(* change of the database.                                                 *)
(***************************************************************************)
NextReadFail ==
    \/ \E t \in TaskIds : CallCreateAuditTrail(t)
    \/ \E t \in TaskIds : CallVerifyTransaction(t)
    \/ \E t \in TaskIds : CallValidateChainIntegrity(t)
    \/ \E t \in TaskIds : StorageReturns(t)
    \/ \E t \in TaskIds : StorageFails(t)

SpecReadFail == Init /\ [][NextReadFail]_vars

\* C14: a validateChainIntegrity call returns valid = true only when it
\* has read every stored entry and found the recomputed hash of each equal
\* to its txHash.
C14_ValidOnlyWhenRead ==
    \A t \in TaskIds :
        (Succeeded(t, "validateChainIntegrity") /\ tasks[t].ret.valid) =>
            /\ tasks[t].loc.allTransactions = getAllBlockchainTransactions(ledger)
            /\ \A i \in 1..Len(ledger) :
                  generateTransactionHash(ledger[i].data) = ledger[i].txHash

\* C15: verifyTransaction returns false only for a legitimate negative, an
\* entry that is not stored or one whose recomputed hash differs; a failed
\* storage call is not answered with false.
C15_FailureIsNotDenial ==
    \A t \in TaskIds :
        (Succeeded(t, "verifyTransaction") /\ tasks[t].ret = FALSE) =>
            \/ FoundMismatch(tasks[t])
            \/ ~tasks[t].loc.found /\ ~HasTransaction(ledger, tasks[t].arg.txHash)

(***************************************************************************)
(* recordFailedAttempt, call by call.                                      *)
(***************************************************************************)
\* this step starts a recordFailedAttempt call in slot t
AttemptStarts(t) ==
    /\ Free(t)
    /\ tasks'[t].op = "recordFailedAttempt"
    /\ tasks'[t].status = "pending"

AttemptKey(task) == FirewallKey(task.arg.identifier, task.arg.ipAddress)

\* C16: every recordFailedAttempt call adds exactly one to the counter of
\* its key; a call that leaves the counter below 5 returns false having
\* written exactly one audit record, of event failed_login_attempt and of
\* risk low for counts 1-2 and medium for counts 3-4; a call that leaves
\* it at 5 or more returns true having blocked the IP through blockIP (one
\* audit record ip_blocked of risk high).
C16_FailedAttemptAudit ==
    /\ [][\A t \in TaskIds :
              AttemptStarts(t) =>
                  failedAttempts'[AttemptKey(tasks'[t])]
                      = MapGet(failedAttempts, AttemptKey(tasks'[t]), 0) + 1]_vars
    /\ [](\A t \in TaskIds :
              Succeeded(t, "recordFailedAttempt") =>
                  LET count == failedAttempts[AttemptKey(tasks[t])]
                      row == securityLogs[Len(securityLogs)]
                  IN  /\ Len(ledger) = tasks[t].arg.ledger + 1
                      /\ Len(securityLogs) = tasks[t].arg.securityLogs + 1
                      /\ row.blockchainHash = ledger[Len(ledger)].txHash
                      /\ IF count < 5
                         THEN /\ tasks[t].ret = FALSE
                              /\ row.eventType = "failed_login_attempt"
                              /\ row.riskLevel =
                                     (IF count \in {1, 2} THEN "low" ELSE "medium")
                         ELSE /\ tasks[t].ret = TRUE
                              /\ row.eventType = "ip_blocked"
                              /\ row.riskLevel = "high"
                              /\ tasks[t].arg.ipAddress \in blockedIPs)

\* the third attempt on a key has been audited as medium
C16_Witness ==
    \E t \in TaskIds :
        /\ Succeeded(t, "recordFailedAttempt")
        /\ failedAttempts[AttemptKey(tasks[t])] = 3
        /\ tasks[t].ret = FALSE
        /\ securityLogs[Len(securityLogs)].riskLevel = "medium"

(***************************************************************************)
(* blockIP calls, possibly in flight together.                             *)
(***************************************************************************)
BlockedInputs == {"9.9.9.9", "0.0.0.0"}

CallBlockIP(t) ==
    /\ Slot(t) /\ CanAppend(1) /\ CanLog(1)
    /\ \E ipAddress \in BlockedInputs, userId \in OptionalUserIds :
          CommitLedger(t, Run(blockIP(Begin(t, "blockIP",
                                            [ipAddress |-> ipAddress, userId |-> userId]),
                                      ipAddress, "manual", userId)))

NextBlock ==
    \/ \E t \in TaskIds : CallBlockIP(t)
    \/ \E t \in TaskIds : StorageReturns(t)
    \/ Tick

SpecBlock == Init /\ [][NextBlock]_vars

\* this step starts a blockIP call in slot t
BlockStarts(t) ==
    /\ Free(t)
    /\ tasks'[t].op = "blockIP"
    /\ tasks'[t].status = "pending"

\* C17: a blockIP(ip) call adds ip to the blocked set and nothing else,
\* so that blocking a blocked IP leaves the set as it is; no step takes an
\* IP out of the set, so isIPBlocked(ip) is true after any number of
\* calls; and every call that has returned, first or repeated, has written
\* exactly one audit record (one ledger entry and its log row) of event
\* ip_blocked and risk level high.
C17_BlockIsIdempotent ==
    /\ [][/\ blockedIPs \subseteq blockedIPs'
          /\ \A t \in TaskIds :
                BlockStarts(t) =>
                    blockedIPs' = blockedIPs \cup {tasks'[t].arg.ipAddress}]_vars
    /\ [](\A t \in TaskIds :
              Succeeded(t, "blockIP") =>
                  /\ isIPBlocked(blockedIPs, tasks[t].arg.ipAddress)
                  /\ Cardinality(LedgerRowsOf(tasks[t].loc.txHash)) = 1
                  /\ Cardinality(LogRowsOf(tasks[t].loc.txHash)) = 1
                  /\ \A i \in LogRowsOf(tasks[t].loc.txHash) :
                        /\ securityLogs[i].eventType = "ip_blocked"
                        /\ securityLogs[i].riskLevel = "high")

\* an IP was blocked twice: the second call has returned, two records of
\* risk high are written and the set holds the IP once
C17_Witness ==
    \E t \in TaskIds :
        /\ Succeeded(t, "blockIP")
        /\ tasks[t].arg.ipAddress = "9.9.9.9"
        /\ blockedIPs = knownMaliciousIPs \cup {"9.9.9.9"}
        /\ Len(securityLogs) = 2
        /\ \A i \in 1..2 :
              /\ securityLogs[i].riskLevel = "high"
              /\ <<"IP 9.9.9.9 blocked: manual">> = securityLogs[i].eventDescription

(***************************************************************************)
(* AuthService: login and register calls, one after the other, over a      *)
(* store that accepts the writes.                                          *)
(***************************************************************************)
Usernames == {"alice", "carol"}
Emails == {"alice@x", "carol@x"}
Passwords == {"pw", "bad"}
AuthIPs == {"9.9.9.9", "0.0.0.0"}

AuthInputs ==
    [username : Usernames, email : Emails, password : Passwords,
     ipAddress : AuthIPs, keyPair : KeyPairs, random : {"r"}]

\* what the caller can see of the state before its call
Before ==
    [users |-> users, ledger |-> Len(ledger), rateLimits |-> rateLimits,
     failedAttempts |-> failedAttempts]

\* the requests counted so far for a kind of call from an address stay
\* below MaxAuthCalls
FewCalls(identifier, ipAddress) ==
    LET key == FirewallKey(identifier, ipAddress)
    IN  key \in DOMAIN rateLimits => rateLimits[key].count < MaxAuthCalls

CallLogin(t) ==
    /\ Slot(t) /\ Quiescent
    /\ currentBlockNumber < MaxLedger
    /\ \E ctx \in AuthInputs :
          /\ ctx.email = "alice@x" /\ FewCalls("login", ctx.ipAddress)
          /\ Commit(t, Run(login(Begin(t, "login",
                                       [ctx |-> ctx,
                                        blocked |-> isIPBlocked(blockedIPs, ctx.ipAddress),
                                        before |-> Before]),
                                 ctx)))
    /\ UNCHANGED hist

CallRegister(t) ==
    /\ Slot(t) /\ Quiescent
    /\ currentBlockNumber < MaxLedger
    /\ \E ctx \in AuthInputs :
          /\ ctx.password = "pw" /\ FewCalls("register", ctx.ipAddress)
          /\ Commit(t, Run(register(Begin(t, "register",
                                          [ctx |-> ctx,
                                           blocked |-> isIPBlocked(blockedIPs, ctx.ipAddress),
                                           before |-> Before]),
                                    ctx)))
    /\ UNCHANGED hist

NextAuth ==
    \/ \E t \in TaskIds : CallLogin(t)
    \/ \E t \in TaskIds : CallRegister(t)
    \/ \E t \in TaskIds : StorageReturns(t)

SpecAuth == Init /\ [][NextAuth]_vars

\* C13: a login or register call made from an IP of the blocked set is
\* denied, and creates no user, appends nothing to the ledger and changes
\* neither the rate limits nor the failed-attempt counters.
C13_BlocklistFirst ==
    \A t \in TaskIds :
        (tasks[t].op \in {"login", "register"} /\ tasks[t].arg.blocked) =>
            /\ tasks[t].status = "resolved" => ~tasks[t].ret.success
            /\ users = tasks[t].arg.before.users
            /\ Len(ledger) = tasks[t].arg.before.ledger
            /\ rateLimits = tasks[t].arg.before.rateLimits
            /\ failedAttempts = tasks[t].arg.before.failedAttempts

\* this step advances the login call in slot t
LoginStep(t) ==
    /\ tasks[t].op = "login"
    /\ tasks[t].status = "pending"
    /\ tasks'[t] # tasks[t]

\* the login call in slot t awaits bcrypt.compare on a password that matches
PasswordVerifies(t) ==
    /\ Head(tasks[t].todo).k = "bcryptCompare"
    /\ Head(tasks[t].todo).passwordHash = bcryptHash(Head(tasks[t].todo).ctx.password)

LoginKey(task) == FirewallKey(task.arg.ctx.username, task.arg.ctx.ipAddress)

\* C20: the step of a login in which the password verification succeeds
\* clears the failed-attempt counter of (username, ip), which is 0 right
\* after it, and touches no other counter; no other step of a login, and
\* so no login that fails, clears or lowers a counter.
C20_ClearOnSuccessOnly ==
    [][\A t \in TaskIds :
           /\ LoginStep(t) =>
                 IF PasswordVerifies(t)
                 THEN /\ LoginKey(tasks[t]) \notin DOMAIN failedAttempts'
                      /\ \A key \in DOMAIN failedAttempts \ {LoginKey(tasks[t])} :
                            MapGet(failedAttempts', key, 0) = failedAttempts[key]
                 ELSE \A key \in DOMAIN failedAttempts :
                          MapGet(failedAttempts', key, 0) >= failedAttempts[key]
           /\ (Free(t) /\ tasks'[t].op = "login" /\ tasks'[t] # tasks[t]) =>
                 failedAttempts' = failedAttempts]_vars

\* a login failed on the password, the next one succeeded: its counter,
\* 1 before the call, is gone
C20_Witness ==
    \E t \in TaskIds :
        /\ Succeeded(t, "login")
        /\ tasks[t].ret.success
        /\ MapGet(tasks[t].arg.before.failedAttempts, LoginKey(tasks[t]), 0) = 1
        /\ LoginKey(tasks[t]) \notin DOMAIN failedAttempts

(***************************************************************************)
(* What a denied login tells: logins with a wrong password or an unknown   *)
(* username, one after the other from one address.                         *)
(***************************************************************************)
\* the call of M runs to its end over a store that answers every call
RECURSIVE Settle(_)
Settle(M) ==
    IF M.task.status # "pending" \/ M.task.todo = << >> THEN M
    ELSE Settle(Complete(M, [k |-> "ok"]))

\* what login(username, password, ipAddress) returns when called now
LoginResult(username, password, ipAddress) ==
    LET ctx == [username |-> username, email |-> "alice@x", password |-> password,
                ipAddress |-> ipAddress,
                keyPair |-> CHOOSE keyPair \in KeyPairs : TRUE, random |-> "r"]
    IN  Settle(Run(login(Begin(1, "login", [ctx |-> ctx]), ctx))).task.ret

CallLoginDenied(t) ==
    /\ Slot(t) /\ Quiescent
    /\ currentBlockNumber < MaxDenials
    /\ \E ctx \in AuthInputs :
          /\ ctx.email = "alice@x" /\ ctx.password = "bad" /\ ctx.ipAddress = "9.9.9.9"
          /\ Commit(t, Run(login(Begin(t, "login",
                                       [ctx |-> ctx,
                                        blocked |-> isIPBlocked(blockedIPs, ctx.ipAddress),
                                        before |-> Before]),
                                 ctx)))
    /\ UNCHANGED hist

NextDenial ==
    \/ \E t \in TaskIds : CallLoginDenied(t)
    \/ \E t \in TaskIds : StorageReturns(t)

SpecDenial == Init /\ [][NextDenial]_vars

\* C21: after any history of requests, a login for a username that does
\* not exist and a login with a wrong password for one that exists, made
\* from the same IP with the same failed-attempt count, return the same
\* message.
C21_DenialDoesNotLeak ==
    Quiescent =>
        \A ipAddress \in AuthIPs, unknown \in Usernames, known \in Usernames :
            (/\ getUserByUsername(users, unknown) = {}
             /\ getUserByUsername(users, known) # {}
             /\ MapGet(failedAttempts, FirewallKey(unknown, ipAddress), 0)
                    = MapGet(failedAttempts, FirewallKey(known, ipAddress), 0))
                => LoginResult(unknown, "bad", ipAddress).message
                       = LoginResult(known, "bad", ipAddress).message

(***************************************************************************)
(* The firewall counters under calls in flight together: a call starts     *)
(* while others are suspended at their awaits.                             *)
(***************************************************************************)
\* the checkRateLimit calls below the limit never await: the first
\* MAX_REQUESTS_PER_MINUTE - 1 of them are made before anything else
RateWindowFilled ==
    \E key \in DOMAIN hist.window : hist.window[key].n >= MAX_REQUESTS_PER_MINUTE - 1

\* a recordFailedAttempt call starts, the cap-th on its key at most; counted
\* is the counter value the call writes
RecordFailedAttemptStart(t, cap) ==
    /\ Slot(t)
    /\ \E identifier \in Identifiers, ipAddress \in IPs :
          LET key == FirewallKey(identifier, ipAddress)
              n == MapGet(hist.streak, key, 0) + 1
          IN  /\ n <= cap
              /\ Commit(t, Run(recordFailedAttempt(
                                   Push(Begin(t, "recordFailedAttempt",
                                              [identifier |-> identifier,
                                               ipAddress |-> ipAddress, n |-> n,
                                               counted |-> MapGet(failedAttempts, key, 0) + 1,
                                               ledger |-> Len(ledger),
                                               securityLogs |-> Len(securityLogs)]),
                                        << [k |-> "retResult"] >>),
                                   identifier, ipAddress)))
              /\ hist' = [hist EXCEPT !.streak = MapSet(@, key, n)]

CallRecordFailedAttemptConcurrent(t) ==
    RateWindowFilled /\ RecordFailedAttemptStart(t, MaxConcurrent)

CallCheckRateLimitConcurrent(t) ==
    /\ Slot(t)
    /\ \E identifier \in RateIdentifiers, ipAddress \in IPs :
          LET key == FirewallKey(identifier, ipAddress)
              n == IF WindowOpen(key) THEN hist.window[key].n + 1 ELSE 1
              start == IF WindowOpen(key) THEN hist.window[key].start ELSE now
          IN  /\ n <= MAX_REQUESTS_PER_MINUTE + MaxOverLimit
              /\ Commit(t, Run(checkRateLimit(
                                   Push(Begin(t, "checkRateLimit",
                                              [identifier |-> identifier,
                                               ipAddress |-> ipAddress, n |-> n]),
                                        << [k |-> "retResult"] >>),
                                   identifier, ipAddress)))
              /\ hist' = [hist EXCEPT !.window =
                                          MapSet(@, key, [n |-> n, start |-> start])]

NextConcurrent ==
    \/ \E t \in TaskIds : CallRecordFailedAttemptConcurrent(t)
    \/ \E t \in TaskIds : CallCheckRateLimitConcurrent(t)
    \/ \E t \in TaskIds : StorageReturns(t)

SpecConcurrent == Init /\ [][NextConcurrent]_vars

\* C22: with recordFailedAttempt calls in flight together on one key, the
\* counter is the number of calls started (no update is lost), the IP is
\* blocked from the call that brings the count to MAX_FAILED_ATTEMPTS on,
\* and exactly the calls from that count on return true; with checkRateLimit
\* calls in flight together on one key inside one window, only the first
\* MAX_REQUESTS_PER_MINUTE return true.
C22_AtomicCounters ==
    /\ \A key \in DOMAIN hist.streak :
          MapGet(failedAttempts, key, 0) = hist.streak[key]
    /\ \A t \in TaskIds :
          /\ (tasks[t].op = "recordFailedAttempt"
                  /\ tasks[t].arg.n >= MAX_FAILED_ATTEMPTS) =>
                 isIPBlocked(blockedIPs, tasks[t].arg.ipAddress)
          /\ Succeeded(t, "recordFailedAttempt") =>
                 tasks[t].ret = (tasks[t].arg.n >= MAX_FAILED_ATTEMPTS)
          /\ Succeeded(t, "checkRateLimit") =>
                 tasks[t].ret = (tasks[t].arg.n <= MAX_REQUESTS_PER_MINUTE)
    /\ \A key \in DOMAIN hist.window :
          /\ key \in DOMAIN rateLimits
          /\ rateLimits[key].count = Min(hist.window[key].n, MAX_REQUESTS_PER_MINUTE)
    /\ (\A key \in DOMAIN hist.streak : hist.streak[key] < MAX_FAILED_ATTEMPTS)
           => blockedIPs = knownMaliciousIPs

\* the fourth and the fifth recordFailedAttempt call on a key were in
\* flight together; the fifth has returned true before the fourth returned,
\* the counter is at 5 and the IP is blocked
C22_Witness ==
    \E t, u \in TaskIds :
        /\ Succeeded(t, "recordFailedAttempt")
        /\ tasks[t].arg.n = MAX_FAILED_ATTEMPTS
        /\ tasks[t].ret = TRUE
        /\ tasks[u].op = "recordFailedAttempt"
        /\ tasks[u].status = "pending"
        /\ tasks[u].arg.n = MAX_FAILED_ATTEMPTS - 1
        /\ failedAttempts[FirewallKey(tasks[t].arg.identifier, tasks[t].arg.ipAddress)]
               = MAX_FAILED_ATTEMPTS
        /\ isIPBlocked(blockedIPs, tasks[t].arg.ipAddress)

(***************************************************************************)
(* The sweep among calls in flight: cleanupSecurityData has no await, it   *)
(* runs whole while other calls are suspended at theirs.  No window        *)
(* expires.                                                                *)
(***************************************************************************)
CallRecordFailedAttemptSwept(t) ==
    RateWindowFilled /\ RecordFailedAttemptStart(t, MaxSwept)

CallCleanupSecurityDataLate(t) == RateWindowFilled /\ CallCleanupSecurityData(t)

NextSweep ==
    \/ \E t \in TaskIds : CallCheckRateLimitConcurrent(t)
    \/ \E t \in TaskIds : CallRecordFailedAttemptSwept(t)
    \/ \E t \in TaskIds : CallCleanupSecurityDataLate(t)
    \/ \E t \in TaskIds : StorageReturns(t)

SpecSweep == Init /\ [][NextSweep]_vars

\* C23: with sweeps running while checkRateLimit and recordFailedAttempt
\* calls are in flight, every request accepted in the open window is still
\* counted, and when a recordFailedAttempt call has returned the counter of
\* its key is at least the value the call wrote.
C23_SweepSparesInFlight ==
    /\ \A key \in DOMAIN hist.window :
          /\ key \in DOMAIN rateLimits
          /\ rateLimits[key].count = Min(hist.window[key].n, MAX_REQUESTS_PER_MINUTE)
    /\ \A t \in TaskIds :
          Succeeded(t, "recordFailedAttempt") =>
              MapGet(failedAttempts,
                     FirewallKey(tasks[t].arg.identifier, tasks[t].arg.ipAddress), 0)
                  >= tasks[t].arg.counted

(***************************************************************************)
(* The order of the stored entries.                                        *)
(***************************************************************************)
\* C24: the first entry stored has blockNumber 1, and of two stored entries
\* the one inserted later has the greater blockNumber, whatever the
\* interleaving of the createSecurityTransaction calls.
C24_InsertionOrderIsBlockOrder ==
    /\ ledger # << >> => ledger[1].blockNumber = 1
    /\ \A i, j \in 1..Len(ledger) :
          i < j => ledger[i].blockNumber < ledger[j].blockNumber

(***************************************************************************)
(* A restart of the process: the services are constructed anew (the block  *)
(* counter and the firewall maps start over, the calls in flight are       *)
(* gone), the tables keep their rows.                                      *)
(***************************************************************************)
Restart ==
    /\ currentBlockNumber > 0
    /\ currentBlockNumber' = 0
    /\ blockedIPs' = knownMaliciousIPs
    /\ rateLimits' = << >>
    /\ failedAttempts' = << >>
    /\ suspiciousActivities' = << >>
    /\ tasks' = [t \in TaskIds |-> IdleTask]
    /\ hist' = [window |-> << >>, streak |-> << >>]
    /\ UNCHANGED <<ledger, securityLogs, users, permissions, secureStore, env,
                   now, submitted>>

\* a createSecurityTransaction call while the table has room for its row
CallCreateSecurityTransactionStored(t) ==
    /\ Len(ledger) + Cardinality(InFlight) < MaxStored
    /\ CallCreateSecurityTransaction(t)

NextRestart ==
    \/ \E t \in TaskIds : CallCreateSecurityTransactionStored(t)
    \/ \E t \in TaskIds : StorageReturns(t)
    \/ Restart
    \/ Tick

SpecRestart == Init /\ [][NextRestart]_vars

\* C25: no two stored ledger entries share a blockNumber or a txHash, also
\* when the process is restarted over a ledger that is not empty and
\* further entries are appended.
C25_LedgerUniqueness ==
    \A i, j \in 1..Len(ledger) :
        i # j => /\ ledger[i].blockNumber # ledger[j].blockNumber
                 /\ ledger[i].txHash # ledger[j].txHash

(***************************************************************************)
(* register in a process started without its keys.                         *)
(***************************************************************************)
\* ENCRYPTION_KEY, MASTER_ENCRYPTION_KEY or both are not set
InitMissingKey ==
    \E e \in [ENCRYPTION_KEY : BOOLEAN, MASTER_ENCRYPTION_KEY : BOOLEAN] :
        /\ ~(e.ENCRYPTION_KEY /\ e.MASTER_ENCRYPTION_KEY)
        /\ InitWith(e)

NextRegister ==
    \/ \E t \in TaskIds : CallRegister(t)
    \/ \E t \in TaskIds : StorageReturns(t)

SpecMissingKey == InitMissingKey /\ [][NextRegister]_vars

\* C26: while ENCRYPTION_KEY or MASTER_ENCRYPTION_KEY is not set, register
\* leaves no user record, no ledger entry and no security log row written,
\* and nothing is encrypted under a key put in place of the missing one.
C26_MissingKeyIsFatal ==
    ~(env.ENCRYPTION_KEY /\ env.MASTER_ENCRYPTION_KEY) =>
        /\ DOMAIN users = {1}
        /\ ledger = << >>
        /\ securityLogs = << >>
        /\ ~env.MASTER_ENCRYPTION_KEY =>
              \A id \in DOMAIN users : users[id].privateKeyEncrypted = Undefined
        /\ ~env.ENCRYPTION_KEY => "auth_token" \notin DOMAIN secureStore

(***************************************************************************)
(* The operations of the three services, one call after the other, over a  *)
(* store whose calls may fail.                                             *)
(***************************************************************************)
\* a call is made while no other is in flight and few rows are stored
Room == Quiescent /\ currentBlockNumber + Len(securityLogs) < MaxLedger

\* login of the existing user and register of a new one, from one address
CallLoginAlice(t) ==
    /\ CallLogin(t)
    /\ tasks'[t].arg.ctx.username = "alice"
    /\ tasks'[t].arg.ctx.ipAddress = "9.9.9.9"

CallRegisterCarol(t) ==
    /\ CallRegister(t)
    /\ tasks'[t].arg.ctx.username = "carol"
    /\ tasks'[t].arg.ctx.email = "carol@x"
    /\ tasks'[t].arg.ctx.ipAddress = "9.9.9.9"

NextServices ==
    \/ \E t \in TaskIds : Room /\ LedgerCalls(t)
    \/ \E t \in TaskIds : Room /\ CallBlockIP(t)
    \/ \E t \in TaskIds : Room /\ CallCheckRateLimitFew(t)
    \/ \E t \in TaskIds : Room /\ CallRecordFailedAttemptFew(t)
    \/ \E t \in TaskIds : Room /\ CallCleanupSecurityData(t)
    \/ \E t \in TaskIds : Room /\ CallDetectIntrusion(t)
    \/ \E t \in TaskIds : Room /\ CallLoginAlice(t)
    \/ \E t \in TaskIds : Room /\ CallRegisterCarol(t)
    \/ \E t \in TaskIds : StorageReturns(t)
    \/ \E t \in TaskIds : StorageFails(t)

SpecServices == Init /\ [][NextServices]_vars

\* C27: no step of an operation of the blockchain, security or auth
\* service removes or changes a stored ledger entry or security log row:
\* after every step the rows stored before it are still there, in place and
\* unchanged.
C27_AppendOnly ==
    [][/\ Len(ledger') >= Len(ledger)
       /\ SubSeq(ledger', 1, Len(ledger)) = ledger
       /\ Len(securityLogs') >= Len(securityLogs)
       /\ SubSeq(securityLogs', 1, Len(securityLogs)) = securityLogs]_vars

\* a verifyTransaction call has found a mismatch on a stored entry and
\* logged it: the entry and the rows written before are as they were
C27_Witness ==
    \E t \in TaskIds :
        /\ Succeeded(t, "verifyTransaction")
        /\ tasks[t].ret = FALSE
        /\ tasks[t].loc.found
        /\ getBlockchainTransaction(ledger, tasks[t].arg.txHash) = tasks[t].loc.dbData
        /\ Len(securityLogs) >= 1

(***************************************************************************)
(* validateChainIntegrity against verifyTransaction on the same ledger.    *)
(***************************************************************************)
\* what verifyTransaction(txHash) returns when called now
VerifyResult(txHash) ==
    Settle(Push(Begin(1, "verifyTransaction", [txHash |-> txHash]),
                << [k |-> "get", txHash |-> txHash],
                   [k |-> "catch", val |-> FALSE] >>)).task.ret

\* what validateChainIntegrity() returns when called now
ValidateResult ==
    Settle(Push(Begin(1, "validateChainIntegrity", << >>),
                << [k |-> "list"],
                   [k |-> "catch",
                    val |-> [valid |-> FALSE, corruptedTransactions |-> << >>]] >>)).task.ret

\* C28: for every stored entry, validateChainIntegrity lists its txHash as
\* corrupted exactly when verifyTransaction(txHash) returns false, and
\* valid is true exactly when the list is empty.
C28_ValidateAgreesWithVerify ==
    /\ \A i \in 1..Len(ledger) :
          (ledger[i].txHash \in Range(ValidateResult.corruptedTransactions))
              <=> (VerifyResult(ledger[i].txHash) = FALSE)
    /\ ValidateResult.valid <=> (ValidateResult.corruptedTransactions = << >>)

\* two entries are stored, the payload of one was changed: it is the one
\* entry listed, the other verifies
C28_Witness ==
    /\ Len(ledger) = 2
    /\ Len(ValidateResult.corruptedTransactions) = 1
    /\ ~ValidateResult.valid
    /\ \E i \in 1..2 : VerifyResult(ledger[i].txHash) = TRUE
    /\ \E i \in 1..2 : VerifyResult(ledger[i].txHash) = FALSE

(***************************************************************************)
(* What a successful register leaves in the ledger.                        *)
(***************************************************************************)
\* C29: a register call that has returned success has appended exactly one
\* ledger entry: its txType is user_registration, its relatedEntityId is
\* the id of the new user, its hash is the one registerUserOnChain
\* returned, and verifyTransaction on that hash returns true.
C29_RegisterAppendsOnce ==
    \A t \in TaskIds :
        (Succeeded(t, "register") /\ tasks[t].ret.success) =>
            /\ Len(ledger) = tasks[t].arg.before.ledger + 1
            /\ ledger[Len(ledger)].txType = "user_registration"
            /\ ledger[Len(ledger)].relatedEntityId
                   = Str(numberToString(tasks[t].ret.user[2]))
            /\ tasks[t].ret.user[2] \in DOMAIN users \ DOMAIN tasks[t].arg.before.users
            /\ users[tasks[t].ret.user[2]].username = tasks[t].arg.ctx.username
            /\ ledger[Len(ledger)].txHash = tasks[t].loc.txHash
            /\ VerifyResult(tasks[t].loc.txHash) = TRUE

\* carol has registered: user 2 exists and the one ledger entry is hers
C29_Witness ==
    \E t \in TaskIds :
        /\ Succeeded(t, "register")
        /\ tasks[t].ret.success
        /\ tasks[t].ret.user = Num(2)
        /\ Len(ledger) = 1
        /\ ledger[1].txType = "user_registration"
        /\ ledger[1].relatedEntityId = Str("2")

(***************************************************************************)
(* generateTransactionHash on payloads that differ in the order their keys *)
(* were inserted.                                                          *)
(***************************************************************************)
BaseData ==
    << <<"userId", Num(1)>>, <<"timestamp", Num(0)>>, <<"description", Str("d")>> >>

BasePayload ==
    << <<"eventType", Str("custom_event")>>, <<"userId", Num(1)>>,
       <<"data", Obj(BaseData)>> >>

\* the objects that hold the properties of o, in every insertion order
Orderings(o) == {s \in [1..Len(o) -> Range(o)] : Range(s) = Range(o)}

\* BasePayload with its keys and the keys of its data in every order
Payloads ==
    { [i \in 1..Len(top) |->
          IF top[i][1] = "data" THEN <<"data", Obj(nested)>> ELSE top[i]] :
      top \in Orderings(BasePayload), nested \in Orderings(BaseData) }

InitHash ==
    /\ InitShared([ENCRYPTION_KEY |-> TRUE, MASTER_ENCRYPTION_KEY |-> TRUE])
    /\ \E data \in Payloads, reordered \in Payloads :
          tasks = [t \in TaskIds |->
                      IF t = 1
                      THEN NewTask("generateTransactionHash",
                                   [data |-> data, reordered |-> reordered])
                      ELSE IdleTask]

\* both payloads are hashed
CallGenerateTransactionHash ==
    /\ tasks[1].op = "generateTransactionHash"
    /\ tasks[1].status = "pending"
    /\ tasks' = [tasks EXCEPT
                    ![1] = Resolve(Machine(1),
                                   <<generateTransactionHash(tasks[1].arg.data),
                                     generateTransactionHash(tasks[1].arg.reordered)>>).task]
    /\ UNCHANGED <<ledger, securityLogs, currentBlockNumber, blockedIPs,
                   rateLimits, failedAttempts, suspiciousActivities, users,
                   permissions, secureStore, env, now, submitted, hist>>

NextHash == CallGenerateTransactionHash

SpecHash == InitHash /\ [][NextHash]_vars

\* C30: two payloads that hold the same keys and values, inserted in
\* different orders at the top level or in the nested data, get the same
\* digest.
C30_HashIgnoresKeyOrder ==
    (tasks[1].op = "generateTransactionHash" /\ tasks[1].status = "resolved") =>
        tasks[1].ret[1] = tasks[1].ret[2]

\* two payloads in different key orders, top level and nested, were hashed
C30_Witness ==
    /\ tasks[1].op = "generateTransactionHash"
    /\ tasks[1].status = "resolved"
    /\ ObjectKeys(tasks[1].arg.data) # ObjectKeys(tasks[1].arg.reordered)
    /\ ObjectKeys(GetProp(tasks[1].arg.data, "data")[2])
           # ObjectKeys(GetProp(tasks[1].arg.reordered, "data")[2])
    /\ tasks[1].ret[1] = tasks[1].ret[2]

(***************************************************************************)
(* The firewall calls on identifiers and addresses that hold ':'.          *)
(***************************************************************************)
\* ("x", "1:2::3") and ("x:1", "2::3"): two user names, two IPv6 addresses
PairIdentifiers == {"x", "x:1"}
PairIPs == {"1:2::3", "2::3"}

\* the failed-attempt counter and the rate-limit entry the service keeps for
\* the pair (identifier, ipAddress): what its next call on the pair reads
PairState(fa, rl, identifier, ipAddress) ==
    LET key == FirewallKey(identifier, ipAddress)
    IN  [attempts |-> MapGet(fa, key, 0),
         limit |-> MapGet(rl, key, Undefined)]

CallRecordFailedAttemptPair(t) ==
    /\ Slot(t) /\ Quiescent
    /\ currentBlockNumber < MaxPairAttempts
    /\ \E identifier \in PairIdentifiers, ipAddress \in PairIPs :
          CommitLedger(t, Run(recordFailedAttempt(
                            Push(Begin(t, "recordFailedAttempt",
                                       [identifier |-> identifier,
                                        ipAddress |-> ipAddress]),
                                 << [k |-> "retResult"] >>),
                            identifier, ipAddress)))

CallCheckRateLimitPair(t) ==
    /\ Slot(t) /\ Quiescent
    /\ \E identifier \in PairIdentifiers, ipAddress \in PairIPs :
          /\ MapGet(rateLimits, FirewallKey(identifier, ipAddress),
                    [count |-> 0]).count < MaxPairRequests
          /\ CommitLedger(t, Run(checkRateLimit(
                               Push(Begin(t, "checkRateLimit",
                                          [identifier |-> identifier,
                                           ipAddress |-> ipAddress]),
                                    << [k |-> "retResult"] >>),
                               identifier, ipAddress)))

CallClearFailedAttemptsPair(t) ==
    /\ Slot(t) /\ Quiescent
    /\ \E identifier \in PairIdentifiers, ipAddress \in PairIPs :
          CommitLedger(t, Resolve(clearFailedAttempts(
                                Begin(t, "clearFailedAttempts",
                                      [identifier |-> identifier,
                                       ipAddress |-> ipAddress]),
                                identifier, ipAddress),
                            Undefined))

NextPairs ==
    \/ \E t \in TaskIds : CallRecordFailedAttemptPair(t)
    \/ \E t \in TaskIds : CallCheckRateLimitPair(t)
    \/ \E t \in TaskIds : CallClearFailedAttemptsPair(t)
    \/ \E t \in TaskIds : StorageReturns(t)

SpecPairs == Init /\ [][NextPairs]_vars

\* this step starts or continues a firewall call in slot t
PairStep(t) ==
    /\ tasks'[t] # tasks[t]
    /\ tasks'[t].op \in {"recordFailedAttempt", "checkRateLimit", "clearFailedAttempts"}

\* C31: a step of recordFailedAttempt, clearFailedAttempts or checkRateLimit
\* on the pair (i, p) leaves the failed-attempt counter and the rate-limit
\* entry of every other pair (i', p') as they were, also for identifiers
\* and addresses that hold ':'.
C31_PairsAreIsolated ==
    [][\A t \in TaskIds :
           PairStep(t) =>
               \A identifier \in PairIdentifiers, ipAddress \in PairIPs :
                   <<identifier, ipAddress>>
                       # <<tasks'[t].arg.identifier, tasks'[t].arg.ipAddress>>
                   => PairState(failedAttempts', rateLimits', identifier, ipAddress)
                          = PairState(failedAttempts, rateLimits, identifier, ipAddress)]_vars

(***************************************************************************)
(* recordSuspiciousActivity called for two subjects from two addresses,    *)
(* one call after the other.                                               *)
(***************************************************************************)
Subjects == {Num(1), Str("bob")}
SuspicionIPs == {"9.9.9.9", "8.8.8.8"}

\* `${userId}:${activityType}`
SuspicionKey(userId, activityType) ==
    (IF userId[1] = "str" THEN userId[2] ELSE numberToString(userId[2]))
        \o ":" \o activityType

SuspicionCalls ==
    LET Sum[ks \in SUBSET DOMAIN suspiciousActivities] ==
            IF ks = {} THEN 0
            ELSE LET k == CHOOSE x \in ks : TRUE
                 IN  suspiciousActivities[k] + Sum[ks \ {k}]
    IN  Sum[DOMAIN suspiciousActivities]

CallRecordSuspiciousActivityFrom(t) ==
    /\ Slot(t) /\ Quiescent
    /\ SuspicionCalls < MaxSuspicion
    /\ \E userId \in Subjects, ipAddress \in SuspicionIPs :
          Commit(t, Run(recordSuspiciousActivity(
                            Begin(t, "recordSuspiciousActivity",
                                  [userId |-> userId, ipAddress |-> ipAddress,
                                   before |-> [suspiciousActivities |-> suspiciousActivities,
                                               blockedIPs |-> blockedIPs,
                                               ledger |-> Len(ledger),
                                               securityLogs |-> Len(securityLogs)]]),
                            userId, "permission_request", "burst", ipAddress)))
    /\ UNCHANGED hist

NextSuspicion ==
    \/ \E t \in TaskIds : CallRecordSuspiciousActivityFrom(t)
    \/ \E t \in TaskIds : StorageReturns(t)

SpecSuspicion == Init /\ [][NextSuspicion]_vars

\* C32: a recordSuspiciousActivity call that has returned has added one to
\* the counter of its (subject, activityType) and changed no other counter,
\* whatever address it was passed; its audit record has risk medium for a
\* resulting count of 1 to 5, high for 6 to 10, critical above 10; a
\* resulting count above 10 has added the address passed to the blocked set
\* (with the audit record of the block), and a resulting count of 10 or
\* less has left the blocked set as it was.
C32_SuspicionCounter ==
    \A t \in TaskIds :
        Succeeded(t, "recordSuspiciousActivity") =>
            LET a == tasks[t].arg
                key == SuspicionKey(a.userId, "permission_request")
                newCount == MapGet(a.before.suspiciousActivities, key, 0) + 1
                row == securityLogs[a.before.securityLogs + 1]
            IN  /\ suspiciousActivities
                       = MapSet(a.before.suspiciousActivities, key, newCount)
                /\ row.eventType = "suspicious_activity"
                /\ row.riskLevel = (IF newCount <= 5 THEN "medium"
                                    ELSE IF newCount <= 10 THEN "high"
                                    ELSE "critical")
                /\ IF newCount > 10
                   THEN /\ blockedIPs = a.before.blockedIPs \cup {a.ipAddress}
                        /\ Len(securityLogs) = a.before.securityLogs + 2
                        /\ Len(ledger) = a.before.ledger + 2
                        /\ securityLogs[Len(securityLogs)].eventType = "ip_blocked"
                   ELSE /\ blockedIPs = a.before.blockedIPs
                        /\ Len(securityLogs) = a.before.securityLogs + 1
                        /\ Len(ledger) = a.before.ledger + 1

\* the tenth report of a subject, from one address, has blocked nothing and
\* the eleventh, from another address, has blocked that address alone
C32_Witness ==
    \E t \in TaskIds :
        /\ Succeeded(t, "recordSuspiciousActivity")
        /\ tasks[t].arg.ipAddress = "8.8.8.8"
        /\ suspiciousActivities[SuspicionKey(tasks[t].arg.userId, "permission_request")] = 11
        /\ tasks[t].arg.before.blockedIPs = knownMaliciousIPs
        /\ blockedIPs = knownMaliciousIPs \cup {"8.8.8.8"}
        /\ securityLogs[tasks[t].arg.before.securityLogs + 1].riskLevel = "critical"
        /\ securityLogs[tasks[t].arg.before.securityLogs].riskLevel = "high"

(***************************************************************************)
(* Appends, one after the other, over a store whose insert may throw.      *)
(***************************************************************************)
CallCreateSecurityTransactionAlone(t) ==
    /\ Slot(t) /\ Quiescent
    /\ currentBlockNumber < MaxStored
    /\ \E data \in EventData, userId \in OptionalUserIds :
          CommitLedger(t, Run(createSecurityTransaction(
                            Push(Begin(t, "createSecurityTransaction",
                                       [data |-> data, userId |-> userId,
                                        before |-> [ledger |-> ledger,
                                                    currentBlockNumber |-> currentBlockNumber]]),
                                 << [k |-> "retTx"] >>),
                            "custom_event", data, userId)))

NextFailedAppend ==
    \/ \E t \in TaskIds : CallCreateSecurityTransactionAlone(t)
    \/ \E t \in TaskIds : StorageReturns(t)
    \/ \E t \in TaskIds : StorageFails(t)

SpecFailedAppend == Init /\ [][NextFailedAppend]_vars

\* a createSecurityTransaction call whose insert threw has failed and the
\* ledger holds the rows it held before the call
FailedAppendIsInvisible ==
    \A t \in TaskIds :
        (tasks[t].op = "createSecurityTransaction" /\ tasks[t].status # "pending"
             /\ ledger = tasks[t].arg.before.ledger)
            => Failed(t, "createSecurityTransaction")

\* C33: when the insert inside createSecurityTransaction fails, the call
\* fails, the ledger holds no entry for it, and currentBlockNumber is what
\* it was before the call, so that the next append that succeeds gets the
\* block number the failed one would have had.
C33_FailedAppendLeavesNoTrace ==
    /\ FailedAppendIsInvisible
    /\ \A t \in TaskIds :
          Failed(t, "createSecurityTransaction") =>
              /\ ledger = tasks[t].arg.before.ledger
              /\ currentBlockNumber = tasks[t].arg.before.currentBlockNumber
    /\ \A t \in TaskIds :
          Succeeded(t, "createSecurityTransaction") =>
              ledger[Len(ledger)].blockNumber = Len(ledger)

\* the checkRateLimit call of the task answers, or has answered, false
Rejecting(task) ==
    /\ task.op = "checkRateLimit"
    /\ \/ task.status = "resolved" /\ task.ret = FALSE
       \/ \E i \in 1..Len(task.todo) :
              task.todo[i].k = "result" /\ task.todo[i].val = FALSE

\* C34: every rate-limit entry has 1 <= count <= MAX_REQUESTS_PER_MINUTE,
\* and no step of a checkRateLimit call that returns false changes the
\* count or the resetTime of an entry.
C34_RateLimitEntries ==
    /\ [](\A key \in DOMAIN rateLimits :
              /\ 1 <= rateLimits[key].count
              /\ rateLimits[key].count <= MAX_REQUESTS_PER_MINUTE)
    /\ [][\A t \in TaskIds :
              (tasks'[t] # tasks[t] /\ Rejecting(tasks'[t])) =>
                  rateLimits' = rateLimits]_vars

\* a call was answered false with its entry full and the window still open
C34_Witness ==
    \E t \in TaskIds :
        /\ tasks[t].status = "resolved"
        /\ Rejecting(tasks[t])
        /\ rateLimits[FirewallKey(tasks[t].arg.identifier, tasks[t].arg.ipAddress)].count
               = MAX_REQUESTS_PER_MINUTE
        /\ now <= rateLimits[FirewallKey(tasks[t].arg.identifier,
                                         tasks[t].arg.ipAddress)].resetTime

(***************************************************************************)
(* The operations that touch the firewall, one call after the other: an    *)
(* address is blocked, then attempts are cleared, the sweep runs, the      *)
(* user logs in and the lockdown is declared.                              *)
(***************************************************************************)
\* emergencyLockdown
emergencyLockdown(M, reason) ==
    createAuditTrail(M, 0, "emergency_lockdown",
                     "Emergency lockdown activated: " \o reason, "critical")

FirewallIPs == {"7.7.7.7", "9.9.9.9"}

CallBlockIPAny(t) ==
    /\ Slot(t) /\ Quiescent
    /\ currentBlockNumber < MaxFirewallRows
    /\ \E ipAddress \in FirewallIPs :
          CommitLedger(t, Run(blockIP(Begin(t, "blockIP",
                                            [ipAddress |-> ipAddress, userId |-> Undefined]),
                                      ipAddress, "manual", Undefined)))

CallClearFailedAttemptsLogin(t) ==
    /\ Slot(t) /\ Quiescent
    /\ \E identifier \in Usernames, ipAddress \in FirewallIPs :
          CommitLedger(t, Resolve(clearFailedAttempts(
                                Begin(t, "clearFailedAttempts",
                                      [identifier |-> identifier,
                                       ipAddress |-> ipAddress]),
                                identifier, ipAddress),
                            Undefined))

CallEmergencyLockdown(t) ==
    /\ Slot(t) /\ Quiescent
    /\ currentBlockNumber < MaxFirewallRows
    /\ CommitLedger(t, Run(emergencyLockdown(
                         Begin(t, "emergencyLockdown", [reason |-> "breach"]),
                         "breach")))

NextFirewall ==
    \/ \E t \in TaskIds : CallBlockIPAny(t)
    \/ \E t \in TaskIds : CallClearFailedAttemptsLogin(t)
    \/ \E t \in TaskIds : Quiescent /\ CallCleanupSecurityData(t)
    \/ \E t \in TaskIds : CallLoginAlice(t)
    \/ \E t \in TaskIds : CallEmergencyLockdown(t)
    \/ \E t \in TaskIds : StorageReturns(t)

SpecFirewall == Init /\ [][NextFirewall]_vars

\* C35: the blocked set holds '0.0.0.0' and '192.168.1.1' from the start
\* and no step of an operation takes an address out of it.
C35_BlockedSetGrows ==
    /\ [](knownMaliciousIPs \subseteq blockedIPs)
    /\ [][\A ip \in blockedIPs : isIPBlocked(blockedIPs', ip)]_vars

\* an address was blocked and, after calls that wrote two more audit
\* records, a successful login has returned with no failed-attempt counter
\* left: the address is still blocked
C35_Witness ==
    \E t \in TaskIds :
        /\ Succeeded(t, "login")
        /\ tasks[t].ret.success
        /\ isIPBlocked(blockedIPs, "7.7.7.7")
        /\ failedAttempts = << >>
        /\ Len(securityLogs) >= 3

(***************************************************************************)
(* Login calls from one address, one after the other, with the caller's    *)
(* count of its consecutive failures.                                      *)
(***************************************************************************)
\* the messages of a login that failed on the user name or the password
FailedLoginMessages ==
    {"Invalid username or password",
     "Account temporarily locked due to suspicious activity"}

\* the consecutive failed logins of each (username, ipAddress), as the
\* callers count them from the results: a success starts the count again
LoginOutcome(h, task) ==
    IF task.op = "login" /\ task.status = "resolved"
    THEN LET pair == <<task.arg.ctx.username, task.arg.ctx.ipAddress>>
         IN  IF task.ret.success
             THEN [h EXCEPT !.streak = MapSet(@, pair, 0)]
             ELSE IF task.ret.message \in FailedLoginMessages
                  THEN [h EXCEPT !.streak = MapSet(@, pair, MapGet(@, pair, 0) + 1)]
                  ELSE h
    ELSE h

CallLoginCounted(t) ==
    /\ Slot(t) /\ Quiescent
    /\ currentBlockNumber < MaxLoginRows
    /\ \E ctx \in AuthInputs :
          /\ ctx.email = "alice@x" /\ ctx.ipAddress = "9.9.9.9"
          /\ Commit(t, Run(login(Begin(t, "login",
                                       [ctx |-> ctx,
                                        blocked |-> isIPBlocked(blockedIPs, ctx.ipAddress),
                                        before |-> Before]),
                                 ctx)))
    /\ hist' = LoginOutcome(hist, tasks'[t])

\* the storage call a login awaits returns
LoginAdvances(t) ==
    /\ Awaiting(t)
    /\ Commit(t, Complete(Machine(t), [k |-> "ok"]))
    /\ hist' = LoginOutcome(hist, tasks'[t])

NextLoginLockout ==
    \/ \E t \in TaskIds : CallLoginCounted(t)
    \/ \E t \in TaskIds : LoginAdvances(t)

SpecLoginLockout == Init /\ [][NextLoginLockout]_vars

\* C36: once five consecutive logins of one user name from an address have
\* failed on the user name or the password, with no successful login of
\* that name from the address in between, every login from the address,
\* for any user name and any password, the right one included, is denied
\* with 'Access denied from this IP address'.
C36_LoginLockout ==
    Quiescent =>
        \A ipAddress \in AuthIPs :
            (\E u \in Usernames :
                 MapGet(hist.streak, <<u, ipAddress>>, 0) >= MAX_FAILED_ATTEMPTS)
                => \A username \in Usernames, password \in Passwords :
                       LoginResult(username, password, ipAddress)
                           = AuthFailure("Access denied from this IP address")

\* the user has logged in and then failed five times in a row: the login
\* with the right password is denied from the address
C36_Witness ==
    /\ Quiescent
    /\ MapGet(hist.streak, <<"alice", "9.9.9.9">>, 0) = MAX_FAILED_ATTEMPTS
    /\ \E i \in 1..Len(securityLogs) : securityLogs[i].eventType = "user_login"
    /\ LoginResult("alice", "pw", "9.9.9.9")
           = AuthFailure("Access denied from this IP address")

(***************************************************************************)
(* Logins of a user whose rapid activity is reported from another address. *)
(***************************************************************************)
\* the reports come first, the logins after them
CallReportRapidActivity(t) ==
    /\ Slot(t) /\ Quiescent
    /\ FirewallKey("login", "9.9.9.9") \notin DOMAIN rateLimits
    /\ MapGet(suspiciousActivities, SuspicionKey(Num(1), "rapid_activity"), 0) < MaxRapid
    /\ Commit(t, Run(recordSuspiciousActivity(
                         Begin(t, "recordSuspiciousActivity",
                               [userId |-> Num(1), ipAddress |-> "8.8.8.8"]),
                         Num(1), "rapid_activity", "burst", "8.8.8.8")))
    /\ UNCHANGED hist

CallLoginSuspected(t) ==
    /\ Slot(t) /\ Quiescent
    /\ \E ctx \in AuthInputs :
          /\ ctx.email = "alice@x" /\ ctx.ipAddress = "9.9.9.9"
          /\ FewCalls("login", ctx.ipAddress)
          /\ Commit(t, Run(login(Begin(t, "login",
                                       [ctx |-> ctx,
                                        blocked |-> isIPBlocked(blockedIPs, ctx.ipAddress),
                                        before |-> Before]),
                                 ctx)))
    /\ UNCHANGED hist

NextSuspected ==
    \/ \E t \in TaskIds : CallReportRapidActivity(t)
    \/ \E t \in TaskIds : CallLoginSuspected(t)
    \/ \E t \in TaskIds : StorageReturns(t)

SpecSuspected == Init /\ [][NextSuspected]_vars

\* the rate-limit entry lets one more call of the kind through
UnderRateLimit(rl, identifier, ipAddress) ==
    LET key == FirewallKey(identifier, ipAddress)
    IN  \/ key \notin DOMAIN rl
        \/ now > rl[key].resetTime
        \/ rl[key].count < MAX_REQUESTS_PER_MINUTE

\* C37: no login is answered 'Account temporarily suspended for security
\* reasons', and a login that has returned, made with the name of a user
\* that exists and the right password from an address that was neither
\* blocked nor over its rate limit, has succeeded, whatever the suspicion
\* counters hold.
C37_HeuristicNeverDenies ==
    \A t \in TaskIds :
        Succeeded(t, "login") =>
            LET a == tasks[t].arg
                ids == getUserByUsername(a.before.users, a.ctx.username)
            IN  /\ tasks[t].ret.message
                       # "Account temporarily suspended for security reasons"
                /\ (/\ ids # {}
                    /\ \A id \in ids :
                           bcryptCompare(a.ctx.password, a.before.users[id].passwordHash)
                    /\ ~a.blocked
                    /\ UnderRateLimit(a.before.rateLimits, "login", a.ctx.ipAddress))
                       => tasks[t].ret.success

\* the user has logged in with more than 20 rapid activities reported, the
\* intrusion check having written its record
C37_Witness ==
    \E t \in TaskIds :
        /\ Succeeded(t, "login")
        /\ tasks[t].ret.success
        /\ MapGet(suspiciousActivities, SuspicionKey(Num(1), "rapid_activity"), 0) > 20
        /\ \E i \in 1..Len(securityLogs) :
               securityLogs[i].eventType = "intrusion_detected"

(***************************************************************************)
(* checkPermissionSecurity for a user whose security score is changed and  *)
(* whose permission requests are reported, one call after the other.       *)
(***************************************************************************)
SecurityScores == {49, 50}
PermissionUserIds == {1, 2}

CallCheckPermissionSecurity(t) ==
    /\ Slot(t) /\ Quiescent
    /\ currentBlockNumber < MaxPermissionRows + MaxPermissionReports
    /\ \E userId \in PermissionUserIds :
          CommitLedger(t, Run(checkPermissionSecurity(
                            Begin(t, "checkPermissionSecurity",
                                  [userId |-> userId,
                                   before |-> [users |-> users,
                                               suspiciousActivities |-> suspiciousActivities,
                                               blockedIPs |-> blockedIPs,
                                               rateLimits |-> rateLimits,
                                               failedAttempts |-> failedAttempts,
                                               ledger |-> Len(ledger),
                                               securityLogs |-> Len(securityLogs)]]),
                            userId, "CAMERA")))

\* storage.updateUser(1, {securityScore})
CallUpdateUserScore(t) ==
    /\ Slot(t) /\ Quiescent
    /\ Len(securityLogs) < MaxPermissionRows
    /\ \E securityScore \in SecurityScores :
          /\ users[1].securityScore # securityScore
          /\ CommitLedger(t, Push(Begin(t, "updateUser", [id |-> 1]),
                                  << [k |-> "updateUser", id |-> 1,
                                      updates |-> [securityScore |-> securityScore]] >>))

\* recordSuspiciousActivity(1, 'permission_request', ...)
CallReportPermissionRequest(t) ==
    /\ Slot(t) /\ Quiescent
    /\ MapGet(suspiciousActivities, SuspicionKey(Num(1), "permission_request"), 0)
           < MaxPermissionReports
    /\ CommitLedger(t, Run(recordSuspiciousActivity(
                         Begin(t, "recordSuspiciousActivity",
                               [userId |-> Num(1), ipAddress |-> "8.8.8.8"]),
                         Num(1), "permission_request", "burst", "8.8.8.8")))

NextPermission ==
    \/ \E t \in TaskIds : CallCheckPermissionSecurity(t)
    \/ \E t \in TaskIds : CallUpdateUserScore(t)
    \/ \E t \in TaskIds : CallReportPermissionRequest(t)
    \/ \E t \in TaskIds : StorageReturns(t)

SpecPermission == Init /\ [][NextPermission]_vars

\* the rows a checkPermissionSecurity call has added to the security log
PermissionRows(t) ==
    [i \in 1..(Len(securityLogs) - tasks[t].arg.before.securityLogs) |->
        LET row == securityLogs[tasks[t].arg.before.securityLogs + i]
        IN  <<row.eventType, row.riskLevel>>]

\* C38: a checkPermissionSecurity call that has returned has decided in
\* this order: user not found, not allowed and no audit record; security
\* score below 50, not allowed and one medium permission_denied record;
\* more than 3 permission requests counted for the user, not allowed and no
\* audit record; otherwise allowed and one low permission_granted record.
\* No step of the call changes blockedIPs, rateLimits, failedAttempts or
\* suspiciousActivities.
C38_PermissionDecision ==
    /\ [](\A t \in TaskIds :
              Succeeded(t, "checkPermissionSecurity") =>
                  LET a == tasks[t].arg
                      found == a.userId \in DOMAIN a.before.users
                      low == a.before.users[a.userId].securityScore < 50
                      many == MapGet(a.before.suspiciousActivities,
                                     SuspicionKey(Num(a.userId), "permission_request"),
                                     0) > 3
                      audited == Len(ledger) - a.before.ledger
                  IN  /\ Len(securityLogs) - a.before.securityLogs = audited
                      /\ IF ~found
                         THEN ~tasks[t].ret.allowed /\ audited = 0
                         ELSE IF low
                         THEN /\ ~tasks[t].ret.allowed
                              /\ PermissionRows(t) = << <<"permission_denied", "medium">> >>
                         ELSE IF many
                         THEN ~tasks[t].ret.allowed /\ audited = 0
                         ELSE /\ tasks[t].ret.allowed
                              /\ PermissionRows(t) = << <<"permission_granted", "low">> >>)
    /\ [][\A t \in TaskIds :
              (tasks'[t] # tasks[t] /\ tasks'[t].op = "checkPermissionSecurity") =>
                  UNCHANGED <<blockedIPs, rateLimits, failedAttempts,
                              suspiciousActivities>>]_vars

\* a user with a low score and more than 3 permission requests counted was
\* denied for the score, with the audit record
C38_Witness ==
    \E t \in TaskIds :
        /\ Succeeded(t, "checkPermissionSecurity")
        /\ tasks[t].arg.userId = 1
        /\ users[1].securityScore = 49
        /\ MapGet(suspiciousActivities,
                  SuspicionKey(Num(1), "permission_request"), 0) = 4
        /\ tasks[t].ret = [allowed |-> FALSE, reason |-> Str("Security score too low")]
        /\ PermissionRows(t) = << <<"permission_denied", "medium">> >>

====
